---- MODULE Spec2Model ----
(***************************************************************************)
(* The crystal-structure token codec of backend/org_crystal.py:            *)
(* MolecularCrystal, its encoder get_crystal_tokens, its decoder           *)
(* from_tokens, and the life of an entity (set_property, set_molecule,     *)
(* to_cif_string, gen_cif).                                                *)
(*                                                                         *)
(* Text.  A Python string is a sequence of lexemes.  A lexeme is one       *)
(* character ("0".."9", "-", ".", " ", "a") or one of the multi-character  *)
(* literals the code searches for as a whole ("<SG>", "</SG>", "_sg",      *)
(* "[C]").  A token is a string, so a sequence of lexemes; a token list    *)
(* is a sequence of tokens.  The empty token is <<>>.                      *)
(*                                                                         *)
(* Numbers.  A real is an integer count of 10^-Scale (thousandths).  The   *)
(* sample values are those whose decimal ties are exact binary fractions   *)
(* (0.125, 0.25, ...), for which Python's correctly rounded formatting is  *)
(* round-half-to-even on the exact value.  The float -0.0, which equals    *)
(* 0.0 but prints with its sign, is the value NegZero.                     *)
(*                                                                         *)
(* Lists are values: the code never changes a list in place (it rebinds    *)
(* self.tokens).  Dictionaries are changed in place (set_property, the     *)
(* LE/LE_HULL recovery of from_tokens), so they live in a heap, dicts,     *)
(* and are held by reference.                                              *)
(***************************************************************************)
EXTENDS Integers, Sequences, FiniteSets, TLC

\* Python's None and a value that is not None.
None == [some |-> FALSE]

Some(v) == [some |-> TRUE, val |-> v]

\* The number of decimal places a model real carries (thousandths).
Scale == 3

Pow10(n) == CASE n = 0 -> 1 [] n = 1 -> 10 [] n = 2 -> 100 [] n = 3 -> 1000
              [] n = 4 -> 10000 [] OTHER -> 100000

Abs(n) == IF n < 0 THEN -n ELSE n

\* The float -0.0: a value of its own below every real of the model.
NegZero == 0 - Pow10(5) * Pow10(4)

\* The number a model real stands for.
Num(v) == IF v = NegZero THEN 0 ELSE v

DigitChars == <<"0", "1", "2", "3", "4", "5", "6", "7", "8", "9">>

IsDigit(ch) == \E i \in 1..10 : DigitChars[i] = ch

DigitVal(ch) == (CHOOSE i \in 1..10 : DigitChars[i] = ch) - 1

\* The decimal digits of a natural number, most significant first: str(n).
RECURSIVE NatChars(_)
NatChars(n) == IF n < 10 THEN <<DigitChars[n + 1]>>
               ELSE NatChars(n \div 10) \o <<DigitChars[(n % 10) + 1]>>

\* The last k decimal digits of n, zero padded.
RECURSIVE PadChars(_, _)
PadChars(n, k) == IF k = 0 THEN <<>>
                  ELSE PadChars(n \div 10, k - 1) \o <<DigitChars[(n % 10) + 1]>>

\* f"{n}" of a Python int.
IntChars(n) == IF n < 0 THEN <<"-">> \o NatChars(-n) ELSE NatChars(n)

\* A real (in 10^-Scale) rounded half-to-even to `precision` places, as a
\* count of 10^-precision: what the format specification .{precision}f keeps.
RoundHalfEven(val, precision) ==
    LET step == Pow10(Scale - precision)
        mag  == Abs(Num(val))
        q    == mag \div step
        r    == mag % step
        up   == \/ 2 * r > step
                \/ 2 * r = step /\ q % 2 = 1
        m    == IF up THEN q + 1 ELSE q
    IN  IF val < 0 THEN -m ELSE m

\* split_numeric(val, precision): the fixed-point text of val, one token
\* per character.  Each token is a one-lexeme string.
SplitNumericHideSign(val, precision) ==
    LET m == Abs(RoundHalfEven(val, precision))
        p == Pow10(precision)
        whole == NatChars(m \div p)
        frac  == IF precision = 0 THEN <<>> ELSE <<".">> \o PadChars(m % p, precision)
        s == whole \o frac
    IN  [i \in 1..Len(s) |-> <<s[i]>>]

\* A mutant of split_numeric: the sign and the digit after it come out as
\* one combined token.
SplitNumericCombined(val, precision) ==
    LET m == Abs(RoundHalfEven(val, precision))
        p == Pow10(precision)
        whole == NatChars(m \div p)
        frac  == IF precision = 0 THEN <<>> ELSE <<".">> \o PadChars(m % p, precision)
        s == whole \o frac
    IN  IF val < 0 THEN <<(<<"-", s[1]>>)>> \o [i \in 1..(Len(s) - 1) |-> <<s[i + 1]>>]
        ELSE [i \in 1..Len(s) |-> <<s[i]>>]

split_numeric(val, precision) ==
    LET m == Abs(RoundHalfEven(val, precision))
        p == Pow10(precision)
        sign  == IF val < 0 THEN <<"-">> ELSE <<>>
        whole == NatChars(m \div p)
        frac  == IF precision = 0 THEN <<>> ELSE <<".">> \o PadChars(m % p, precision)
        s == sign \o whole \o frac
    IN  [i \in 1..Len(s) |-> <<s[i]>>]

\* ''.join(seq): the tokens' lexemes, nothing between them (by halves, to
\* keep the evaluation shallow).
RECURSIVE Concat(_)
Concat(seq) ==
    IF seq = <<>> THEN <<>>
    ELSE IF Len(seq) = 1 THEN seq[1]
    ELSE LET h == Len(seq) \div 2
         IN  Concat(SubSeq(seq, 1, h)) \o Concat(SubSeq(seq, h + 1, Len(seq)))

\* ' '.join(tokens)
RECURSIVE JoinSpace(_)
JoinSpace(tokens) ==
    IF tokens = <<>> THEN <<>>
    ELSE IF Len(tokens) = 1 THEN tokens[1]
    ELSE LET h == Len(tokens) \div 2
         IN  JoinSpace(SubSeq(tokens, 1, h)) \o <<" ">>
             \o JoinSpace(SubSeq(tokens, h + 1, Len(tokens)))

\* str.split(): the maximal runs of non-whitespace, in order.
Split(text) ==
    LET starts == {i \in 1..Len(text) :
                     text[i] # " " /\ (i = 1 \/ text[i - 1] = " ")}
        start(k) == CHOOSE i \in starts : Cardinality({j \in starts : j < i}) = k - 1
        blanks(i) == {j \in i..Len(text) : text[j] = " "}
        stop(i) == IF blanks(i) = {} THEN Len(text)
                   ELSE (CHOOSE j \in blanks(i) : \A m \in blanks(i) : j <= m) - 1
    IN  [k \in 1..Cardinality(starts) |-> SubSeq(text, start(k), stop(start(k)))]

\* The first index >= from at which lexeme lx stands in text, 0 if none.
FirstAt(text, lx, from) ==
    LET hits == {i \in from..Len(text) : text[i] = lx}
    IN  IF hits = {} THEN 0 ELSE CHOOSE i \in hits : \A j \in hits : i <= j

\* Whether chars is digits only, at least one.
AllDigits(chars) == Len(chars) > 0 /\ \A i \in 1..Len(chars) : IsDigit(chars[i])

RECURSIVE NatVal(_)
NatVal(chars) == IF chars = <<>> THEN 0
                 ELSE 10 * NatVal(SubSeq(chars, 1, Len(chars) - 1))
                      + DigitVal(chars[Len(chars)])

Unsigned(chars) == IF chars # <<>> /\ chars[1] = "-" THEN Tail(chars) ELSE chars

IsNeg(chars) == chars # <<>> /\ chars[1] = "-"

\* int(s) accepts an optional sign and decimal digits, else ValueError.
IntOk(chars) == AllDigits(Unsigned(chars))

IntVal(chars) == IF IsNeg(chars) THEN -NatVal(Unsigned(chars)) ELSE NatVal(Unsigned(chars))

DotAt(chars) == FirstAt(chars, ".", 1)

\* float(s) accepts an optional sign, then digits with at most one point
\* and at least one digit ("1", "1.", ".5", "1.5"), else ValueError.
FloatOk(chars) ==
    LET u == Unsigned(chars)
        d == DotAt(u)
        whole == IF d = 0 THEN u ELSE SubSeq(u, 1, d - 1)
        frac  == IF d = 0 THEN <<>> ELSE SubSeq(u, d + 1, Len(u))
    IN  /\ \A i \in 1..Len(whole) : IsDigit(whole[i])
        /\ \A i \in 1..Len(frac) : IsDigit(frac[i])
        /\ Len(whole) + Len(frac) > 0

\* A mutant of float(): the sign of a zero is lost.
FloatValUnsignedZero(chars) ==
    LET u == Unsigned(chars)
        d == DotAt(u)
        whole == IF d = 0 THEN u ELSE SubSeq(u, 1, d - 1)
        frac  == IF d = 0 THEN <<>> ELSE SubSeq(u, d + 1, Len(u))
        kept == IF Len(frac) > Scale THEN SubSeq(frac, 1, Scale) ELSE frac
        mag == NatVal(whole) * Pow10(Scale) + NatVal(kept) * Pow10(Scale - Len(kept))
    IN  IF IsNeg(chars) THEN -mag ELSE mag

\* The value of a string float() accepts, in 10^-Scale (digits past the
\* model's resolution are cut; no input of the model carries any).
FloatVal(chars) ==
    LET u == Unsigned(chars)
        d == DotAt(u)
        whole == IF d = 0 THEN u ELSE SubSeq(u, 1, d - 1)
        frac  == IF d = 0 THEN <<>> ELSE SubSeq(u, d + 1, Len(u))
        kept == IF Len(frac) > Scale THEN SubSeq(frac, 1, Scale) ELSE frac
        mag == NatVal(whole) * Pow10(Scale) + NatVal(kept) * Pow10(Scale - Len(kept))
    IN  IF ~IsNeg(chars) THEN mag ELSE IF mag = 0 THEN NegZero ELSE -mag

(***************************************************************************)
(* Tags and segments                                                       *)
(***************************************************************************)
\* A tag token such as '<SG>' or '</SG>': a string of one lexeme.
Open(tag) == <<"<" \o tag \o ">">>

Close(tag) == <<"</" \o tag \o ">">>

\* [f'<{tag}>'] + body + [f'</{tag}>']
Segment(tag, body) == <<Open(tag)>> \o body \o <<Close(tag)>>

\* The loop tables of get_crystal_tokens: tag, key or index, precision.
LatticeFields ==
    << [tag |-> "A", key |-> "a", prec |-> 2],
       [tag |-> "B", key |-> "b", prec |-> 2],
       [tag |-> "C", key |-> "c", prec |-> 2],
       [tag |-> "ALPHA", key |-> "alpha", prec |-> 1],
       [tag |-> "BETA", key |-> "beta", prec |-> 1],
       [tag |-> "GAMMA", key |-> "gamma", prec |-> 1] >>

CenterTags == <<"X", "Y", "Z">>

RotationTags == <<"R0", "R1", "R2">>

PropertyTags == <<"LE", "LE_HULL">>

(***************************************************************************)
(* The encoder                                                             *)
(***************************************************************************)
\* The lattice segments of get_crystal_tokens, in the order of its table.
RECURSIVE LatticeTokens(_, _)
LatticeTokens(lp, i) ==
    IF i > Len(LatticeFields) THEN <<>>
    ELSE Segment(LatticeFields[i].tag,
                 split_numeric(lp[LatticeFields[i].key], LatticeFields[i].prec))
         \o LatticeTokens(lp, i + 1)

\* for tag,index in zip(tags, range(3)): one segment per vector component.
RECURSIVE VectorTokens(_, _, _, _)
VectorTokens(tags, vec, prec, i) ==
    IF i > Len(tags) THEN <<>>
    ELSE Segment(tags[i], split_numeric(vec[i], prec))
         \o VectorTokens(tags, vec, prec, i + 1)

\* The token f'{space_group}_sg'.
SgToken(sg) == IntChars(sg) \o <<"_sg">>

\* A mutant of the encoder: the SG segment is emitted before the SELF one.
CrystalTokensSgFirst(e) ==
    Segment("SG", <<SgToken(e.space_group)>>)
    \o Segment("SELF", e.selfies_tokens)
    \o LatticeTokens(e.lattice_params, 1)
    \o VectorTokens(CenterTags, e.com_frac, 3, 1)
    \o VectorTokens(RotationTags, e.rod, 2, 1)

\* The list get_crystal_tokens builds and returns.
CrystalTokens(e) ==
    Segment("SELF", e.selfies_tokens)
    \o Segment("SG", <<SgToken(e.space_group)>>)
    \o LatticeTokens(e.lattice_params, 1)
    \o VectorTokens(CenterTags, e.com_frac, 3, 1)
    \o VectorTokens(RotationTags, e.rod, 2, 1)

(***************************************************************************)
(* The decoder                                                             *)
(***************************************************************************)
\* A mutant of extract: the match starts at the last opening tag.
ExtractLast(tag, text) ==
    LET opens == {k \in 1..Len(text) : text[k] = Open(tag)[1]}
        i == IF opens = {} THEN 0 ELSE CHOOSE k \in opens : \A m \in opens : m <= k
        j == IF i = 0 THEN 0 ELSE FirstAt(text, Close(tag)[1], i + 1)
    IN  IF j = 0 THEN <<>> ELSE Split(SubSeq(text, i + 1, j - 1))

\* extract(tag): re.search(f'<{tag}>(.*?)</{tag}>', text), then
\* m.group(1).split() if m else [].  The match starts at the leftmost
\* opening tag and ends at the first closing tag after it.
extract(tag, text) ==
    LET i == FirstAt(text, Open(tag)[1], 1)
        j == IF i = 0 THEN 0 ELSE FirstAt(text, Close(tag)[1], i + 1)
    IN  IF j = 0 THEN <<>> ELSE Split(SubSeq(text, i + 1, j - 1))

\* sg_tok.replace('_sg', ''): every occurrence is removed.
RECURSIVE RemoveSg(_)
RemoveSg(chars) ==
    IF chars = <<>> THEN <<>>
    ELSE IF Head(chars) = "_sg" THEN RemoveSg(Tail(chars))
    ELSE <<Head(chars)>> \o RemoveSg(Tail(chars))

IndexError == [type |-> "IndexError", msg |-> "list index out of range", arg |-> <<>>]

IntError(chars) ==
    [type |-> "ValueError", msg |-> "invalid literal for int() with base 10", arg |-> chars]

FloatError(chars) ==
    [type |-> "ValueError", msg |-> "could not convert string to float", arg |-> chars]

\* The numeric tags in the order from_tokens reads them.
NumericTags ==
    <<"A", "B", "C", "ALPHA", "BETA", "GAMMA", "X", "Y", "Z", "R0", "R1", "R2">>

\* The joined body of a numeric tag: ''.join(extract(tag)).
NumericBody(tag, text) == Concat(extract(tag, text))

\* The joined bodies of the numeric tags, in reading order.
NumericBodies(text) == [i \in 1..Len(NumericTags) |-> NumericBody(NumericTags[i], text)]

\* The first numeric tag, in reading order, whose float() raises; 0 if none.
FirstBadNumeric(bodies) ==
    LET bad == {i \in 1..Len(bodies) : ~FloatOk(bodies[i])}
    IN  IF bad = {} THEN 0 ELSE CHOOSE i \in bad : \A j \in bad : i <= j

\* The lines of from_tokens up to the property recovery: the exception
\* raised, or the fields recovered.
ParseFields(tokens) ==
    LET text == CHOOSE t \in {JoinSpace(tokens)} : TRUE
        sgBody == extract("SG", text)
        sgChars == RemoveSg(sgBody[1])
        bodies == CHOOSE b \in {NumericBodies(text)} : TRUE
        badNum == FirstBadNumeric(bodies)
        num(i) == FloatVal(bodies[i])
    IN  IF sgBody = <<>> THEN [ok |-> FALSE, err |-> IndexError]
        ELSE IF ~IntOk(sgChars) THEN [ok |-> FALSE, err |-> IntError(sgChars)]
        ELSE IF badNum # 0 THEN [ok |-> FALSE, err |-> FloatError(bodies[badNum])]
        ELSE [ok |-> TRUE,
              selfies |-> extract("SELF", text),
              sg |-> IntVal(sgChars),
              lp |-> [a |-> num(1), b |-> num(2), c |-> num(3),
                      alpha |-> num(4), beta |-> num(5), gamma |-> num(6)],
              com |-> <<num(7), num(8), num(9)>>,
              rod |-> <<num(10), num(11), num(12)>>]

(***************************************************************************)
(* Dictionaries                                                            *)
(***************************************************************************)
EmptyDict == [k \in {} |-> 0]

\* d[k] = v
DictSet(d, k, v) == [x \in (DOMAIN d) \cup {k} |-> IF x = k THEN v ELSE d[x]]

\* The property recovery loop of from_tokens over ['LE', 'LE_HULL'],
\* applied to the dictionary value d.
RECURSIVE RecoverProperties(_, _, _)
RecoverProperties(d, text, i) ==
    IF i > Len(PropertyTags) THEN d
    ELSE LET key == PropertyTags[i]
             val == extract(key, text)
             d2 == IF val # <<>> /\ FloatOk(Concat(val))
                   THEN DictSet(d, key, FloatVal(Concat(val)))
                   ELSE d
         IN  RecoverProperties(d2, text, i + 1)

(***************************************************************************)
(* State                                                                   *)
(***************************************************************************)
VARIABLES
    ents,       \* the MolecularCrystal objects made so far, by index
    dicts,      \* the heap of dictionaries; a reference is an index
    made,       \* history, per entity: how it was made, set_molecule called
    returned,   \* the list the last get_crystal_tokens call returned
    last,       \* the last call: its arguments and its outcome
    files,      \* the files gen_cif wrote, by name
    plan,       \* the codec run's inputs, drawn at the start
    calls,      \* the number of calls made
    tables,     \* the module's dictionaries VOCAB and SG_OPS_TEXT
    result      \* the last call of a function of the module and its outcome

vars == <<ents, dicts, made, returned, last, files, plan, calls, tables, result>>

NoErr == [type |-> "", msg |-> "", arg |-> <<>>]

NoCall == [op |-> "", ent |-> 0, ok |-> TRUE, err |-> NoErr, tokens |-> <<>>,
           propsRef |-> 0, propsBefore |-> EmptyDict, text |-> <<>>, nEnts |-> 0]

NoFiles == [f \in {} |-> <<>>]

(***************************************************************************)
(* The dictionaries of the module                                          *)
(***************************************************************************)
SgOpsKeys == {1, 2, 4, 5, 7, 9, 13, 14, 15, 18, 19, 20, 29, 33, 43, 56, 60, 61, 76, 86, 88, 96, 145, 148, 154, 169}

\* SG_OPS_TEXT[sg]: the raw operator text, a line break and then one
\* numbered operator per line, with no line break at the end.
SG_OPS_TEXT(sg) ==
    CASE sg = 1 -> <<"\n", "1 +x,+y,+z">>
      [] sg = 2 -> <<"\n", "1 -x,-y,-z", "\n", "2 +x,+y,+z">>
      [] sg = 4 -> <<"\n", "1 +x,+y,+z", "\n", "2 -x,1/2+y,-z">>
      [] sg = 5 -> <<"\n", "1 -x,+y,-z", "\n", "2 +x,+y,+z", "\n", "3 1/2-x,1/2+y,-z", "\n",
            "4 1/2+x,1/2+y,+z">>
      [] sg = 7 -> <<"\n", "1 +x,+y,+z", "\n", "2 +x,-y,1/2+z">>
      [] sg = 9 -> <<"\n", "1 +x,+y,+z", "\n", "2 +x,-y,1/2+z", "\n", "3 1/2+x,1/2+y,+z",
            "\n", "4 1/2+x,1/2-y,1/2+z">>
      [] sg = 13 -> <<"\n", "1 -x,-y,-z", "\n", "2 +x,+y,+z", "\n", "3 -x,+y,1/2-z", "\n",
            "4 +x,-y,1/2+z">>
      [] sg = 14 -> <<"\n", "1 -x,-y,-z", "\n", "2 +x,+y,+z", "\n", "3 -x,1/2+y,1/2-z", "\n",
            "4 +x,1/2-y,1/2+z">>
      [] sg = 15 -> <<"\n", "1 -x,-y,-z", "\n", "2 +x,+y,+z", "\n", "3 -x,+y,1/2-z", "\n",
            "4 +x,-y,1/2+z", "\n", "5 1/2-x,1/2-y,-z", "\n", "6 1/2+x,1/2+y,+z", "\n",
            "7 1/2-x,1/2+y,1/2-z", "\n", "8 1/2+x,1/2-y,1/2+z">>
      [] sg = 18 -> <<"\n", "1 -x,-y,+z", "\n", "2 +x,+y,+z", "\n", "3 1/2-x,1/2+y,-z", "\n",
            "4 1/2+x,1/2-y,-z">>
      [] sg = 19 -> <<"\n", "1 +x,+y,+z", "\n", "2 -x,1/2+y,1/2-z", "\n", "3 1/2-x,-y,1/2+z",
            "\n", "4 1/2+x,1/2-y,-z">>
      [] sg = 20 -> <<"\n", "1 +x,-y,-z", "\n", "2 +x,+y,+z", "\n", "3 -x,-y,1/2+z", "\n",
            "4 -x,+y,1/2-z", "\n", "5 1/2+x,1/2-y,-z", "\n", "6 1/2+x,1/2+y,+z", "\n",
            "7 1/2-x,1/2-y,1/2+z", "\n", "8 1/2-x,1/2+y,1/2-z">>
      [] sg = 29 -> <<"\n", "1 +x,+y,+z", "\n", "2 -x,-y,1/2+z", "\n", "3 1/2+x,-y,+z", "\n",
            "4 1/2-x,+y,1/2+z">>
      [] sg = 33 -> <<"\n", "1 +x,+y,+z", "\n", "2 -x,-y,1/2+z", "\n", "3 1/2+x,1/2-y,+z",
            "\n", "4 1/2-x,1/2+y,1/2+z">>
      [] sg = 43 -> <<"\n", "1 -x,-y,+z", "\n", "2 +x,+y,+z", "\n", "3 -x,1/2-y,1/2+z", "\n",
            "4 +x,1/2+y,1/2+z", "\n", "5 1/4-x,1/4+y,1/4+z", "\n", "6 1/4+x,1/4-y,1/4+z",
            "\n", "7 1/4-x,3/4+y,3/4+z", "\n", "8 1/4+x,3/4-y,3/4+z", "\n",
            "9 1/2-x,-y,1/2+z", "\n", "10 1/2+x,+y,1/2+z", "\n", "11 1/2-x,1/2-y,+z", "\n",
            "12 1/2+x,1/2+y,+z", "\n", "13 3/4-x,1/4+y,3/4+z", "\n", "14 3/4+x,1/4-y,3/4+z",
            "\n", "15 3/4-x,3/4+y,1/4+z", "\n", "16 3/4+x,3/4-y,1/4+z">>
      [] sg = 56 -> <<"\n", "1 -x,-y,-z", "\n", "2 +x,+y,+z", "\n", "3 -x,1/2+y,1/2-z", "\n",
            "4 +x,1/2-y,1/2+z", "\n", "5 1/2-x,+y,1/2+z", "\n", "6 1/2+x,-y,1/2-z", "\n",
            "7 1/2-x,1/2-y,+z", "\n", "8 1/2+x,1/2+y,-z">>
      [] sg = 60 -> <<"\n", "1 -x,-y,-z", "\n", "2 +x,+y,+z", "\n", "3 -x,+y,1/2-z", "\n",
            "4 +x,-y,1/2+z", "\n", "5 1/2-x,1/2+y,+z", "\n", "6 1/2+x,1/2-y,-z", "\n",
            "7 1/2-x,1/2-y,1/2+z", "\n", "8 1/2+x,1/2+y,1/2-z">>
      [] sg = 61 -> <<"\n", "1 -x,-y,-z", "\n", "2 +x,+y,+z", "\n", "3 -x,1/2+y,1/2-z", "\n",
            "4 +x,1/2-y,1/2+z", "\n", "5 1/2-x,-y,1/2+z", "\n", "6 1/2+x,+y,1/2-z", "\n",
            "7 1/2-x,1/2+y,+z", "\n", "8 1/2+x,1/2-y,-z">>
      [] sg = 76 -> <<"\n", "1 +x,+y,+z", "\n", "2 -y,+x,1/4+z", "\n", "3 -x,-y,1/2+z", "\n",
            "4 +y,-x,3/4+z">>
      [] sg = 86 -> <<"\n", "1 -x,-y,-z", "\n", "2 +x,+y,+z", "\n", "3 -y,1/2+x,1/2+z", "\n",
            "4 +y,1/2-x,1/2-z", "\n", "5 1/2-y,+x,1/2-z", "\n", "6 1/2+y,-x,1/2+z", "\n",
            "7 1/2-x,1/2-y,+z", "\n", "8 1/2+x,1/2+y,-z">>
      [] sg = 88 -> <<"\n", "1 -x,-y,-z", "\n", "2 +x,+y,+z", "\n", "3 -x,1/2-y,+z", "\n",
            "4 +x,1/2+y,-z", "\n", "5 1/4-y,1/4+x,1/4-z", "\n", "6 1/4+y,1/4-x,1/4+z", "\n",
            "7 1/4-y,3/4+x,3/4+z", "\n", "8 1/4+y,3/4-x,3/4-z", "\n", "9 1/2-x,-y,1/2+z",
            "\n", "10 1/2+x,+y,1/2-z", "\n", "11 1/2-x,1/2-y,1/2-z", "\n",
            "12 1/2+x,1/2+y,1/2+z", "\n", "13 3/4-y,1/4+x,1/4+z", "\n",
            "14 3/4+y,1/4-x,1/4-z", "\n", "15 3/4-y,3/4+x,3/4-z", "\n",
            "16 3/4+y,3/4-x,3/4+z">>
      [] sg = 96 -> <<"\n", "1 +y,+x,-z", "\n", "2 +x,+y,+z", "\n", "3 -x,-y,1/2+z", "\n",
            "4 -y,-x,1/2-z", "\n", "5 1/2+y,1/2-x,1/4+z", "\n", "6 1/2+x,1/2-y,1/4-z", "\n",
            "7 1/2-x,1/2+y,3/4-z", "\n", "8 1/2-y,1/2+x,3/4+z">>
      [] sg = 145 -> <<"\n", "1 +x,+y,+z", "\n", "2 -x+y,-x,1/3+z", "\n", "3 -y,+x-y,2/3+z">>
      [] sg = 148 -> <<"\n", "1 -x,-y,-z", "\n", "2 -x+y,-x,+z", "\n", "3 -y,+x-y,+z", "\n",
            "4 +y,-x+y,-z", "\n", "5 +x-y,+x,-z", "\n", "6 +x,+y,+z", "\n",
            "7 1/3-x,2/3-y,2/3-z", "\n", "8 1/3-x+y,2/3-x,2/3+z", "\n",
            "9 1/3-y,2/3+x-y,2/3+z", "\n", "10 1/3+y,2/3-x+y,2/3-z", "\n",
            "11 1/3+x-y,2/3+x,2/3-z", "\n", "12 1/3+x,2/3+y,2/3+z", "\n",
            "13 2/3-x,1/3-y,1/3-z", "\n", "14 2/3-x+y,1/3-x,1/3+z", "\n",
            "15 2/3-y,1/3+x-y,1/3+z", "\n", "16 2/3+y,1/3-x+y,1/3-z", "\n",
            "17 2/3+x-y,1/3+x,1/3-z", "\n", "18 2/3+x,1/3+y,1/3+z">>
      [] sg = 154 -> <<"\n", "1 +y,+x,-z", "\n", "2 +x,+y,+z", "\n", "3 -x+y,-x,1/3+z", "\n",
            "4 +x-y,-y,1/3-z", "\n", "5 -x,-x+y,2/3-z", "\n", "6 -y,+x-y,2/3+z">>
      [] sg = 169 -> <<"\n", "1 +x,+y,+z", "\n", "2 +x-y,+x,1/6+z", "\n", "3 -y,+x-y,1/3+z",
            "\n", "4 -x,-y,1/2+z", "\n", "5 -x+y,-x,2/3+z", "\n", "6 +y,-x+y,5/6+z">>

\* The items of the VOCAB literal, in the order written: token, id.
VocabItems ==
    << <<<<"0">>, 0>>, <<<<"1">>, 1>>, <<<<"2">>, 2>>, <<<<"3">>, 3>>, <<<<"4">>, 4>>,
       <<<<"5">>, 5>>, <<<<"6">>, 6>>, <<<<"7">>, 7>>, <<<<"8">>, 8>>, <<<<"9">>, 9>>,
       <<<<"-">>, 10>>, <<<<".">>, 11>>, <<<<"[=C-1]">>, 12>>, <<<<"[#Branch3]">>, 13>>,
       <<<<"[#B]">>, 14>>, <<<<"[Branch3]">>, 15>>, <<<<"[#Branch1]">>, 16>>,
       <<<<"[Branch2]">>, 17>>, <<<<"[=Ring3]">>, 18>>, <<<<"[#B-1]">>, 19>>,
       <<<<"[#N+1]">>, 20>>, <<<<"[=N-1]">>, 21>>, <<<<"[Cl]">>, 22>>,
       <<<<"[Branch1]">>, 23>>, <<<<"[#C+1]">>, 24>>, <<<<"[O-1]">>, 25>>,
       <<<<"[S]">>, 26>>, <<<<"[=P]">>, 27>>, <<<<"[N-1]">>, 28>>, <<<<"[#P]">>, 29>>,
       <<<<"[=O]">>, 30>>, <<<<"[O]">>, 31>>, <<<<"[Ring2]">>, 32>>, <<<<"[P]">>, 33>>,
       <<<<"[#O+1]">>, 34>>, <<<<"[=Ring1]">>, 35>>, <<<<"[#N]">>, 36>>, <<<<"[C]">>, 37>>,
       <<<<"[F]">>, 38>>, <<<<"[#S]">>, 39>>, <<<<"[B+1]">>, 40>>, <<<<"[=C]">>, 41>>,
       <<<<"[=C+1]">>, 42>>, <<<<"[=N]">>, 43>>, <<<<"[S-1]">>, 44>>, <<<<"[C-1]">>, 45>>,
       <<<<"[O+1]">>, 46>>, <<<<"[#C-1]">>, 47>>, <<<<"[Ring1]">>, 48>>,
       <<<<"[N+1]">>, 49>>, <<<<"[#S+1]">>, 50>>, <<<<"[#C]">>, 51>>, <<<<"[I]">>, 52>>,
       <<<<"[=P+1]">>, 53>>, <<<<"[=B+1]">>, 54>>, <<<<"[Br]">>, 55>>,
       <<<<"[#P+1]">>, 56>>, <<<<"[=S+1]">>, 57>>, <<<<"[=B]">>, 58>>, <<<<"[P+1]">>, 59>>,
       <<<<"[=Branch1]">>, 60>>, <<<<"[=P-1]">>, 61>>, <<<<"[C+1]">>, 62>>,
       <<<<"[S+1]">>, 63>>, <<<<"[B-1]">>, 64>>, <<<<"[Ring3]">>, 65>>,
       <<<<"[=Ring2]">>, 66>>, <<<<"[=B-1]">>, 67>>, <<<<"[=S-1]">>, 68>>,
       <<<<"[=Branch3]">>, 69>>, <<<<"[#S-1]">>, 70>>, <<<<"[B]">>, 71>>,
       <<<<"[=O+1]">>, 72>>, <<<<"[#P-1]">>, 73>>, <<<<"[=Branch2]">>, 74>>,
       <<<<"[#Branch2]">>, 75>>, <<<<"[=N+1]">>, 76>>, <<<<"[=S]">>, 77>>,
       <<<<"[N]">>, 78>>, <<<<"[P-1]">>, 79>>, <<<<"[H]">>, 80>>, <<<<"1", "_sg">>, 81>>,
       <<<<"2", "_sg">>, 82>>, <<<<"4", "_sg">>, 83>>, <<<<"5", "_sg">>, 84>>,
       <<<<"7", "_sg">>, 85>>, <<<<"9", "_sg">>, 86>>, <<<<"1", "3", "_sg">>, 87>>,
       <<<<"1", "4", "_sg">>, 88>>, <<<<"1", "5", "_sg">>, 89>>,
       <<<<"1", "8", "_sg">>, 90>>, <<<<"1", "9", "_sg">>, 91>>,
       <<<<"2", "0", "_sg">>, 92>>, <<<<"2", "9", "_sg">>, 93>>,
       <<<<"3", "3", "_sg">>, 94>>, <<<<"4", "3", "_sg">>, 95>>,
       <<<<"5", "6", "_sg">>, 96>>, <<<<"6", "0", "_sg">>, 97>>,
       <<<<"6", "1", "_sg">>, 98>>, <<<<"7", "6", "_sg">>, 99>>,
       <<<<"8", "6", "_sg">>, 100>>, <<<<"8", "8", "_sg">>, 101>>,
       <<<<"9", "6", "_sg">>, 102>>, <<<<"1", "4", "5", "_sg">>, 103>>,
       <<<<"1", "4", "8", "_sg">>, 104>>, <<<<"1", "5", "4", "_sg">>, 105>>,
       <<<<"1", "6", "9", "_sg">>, 106>>, <<<<"<SELF>">>, 107>>, <<<<"</SELF>">>, 108>>,
       <<<<"<SG>">>, 109>>, <<<<"</SG>">>, 110>>, <<<<"<A>">>, 111>>, <<<<"</A>">>, 112>>,
       <<<<"<B>">>, 113>>, <<<<"</B>">>, 114>>, <<<<"<C>">>, 115>>, <<<<"</C>">>, 116>>,
       <<<<"<ALPHA>">>, 117>>, <<<<"</ALPHA>">>, 118>>, <<<<"<BETA>">>, 119>>,
       <<<<"</BETA>">>, 120>>, <<<<"<GAMMA>">>, 121>>, <<<<"</GAMMA>">>, 122>>,
       <<<<"<X>">>, 123>>, <<<<"</X>">>, 124>>, <<<<"<Y>">>, 125>>, <<<<"</Y>">>, 126>>,
       <<<<"<Z>">>, 127>>, <<<<"</Z>">>, 128>>, <<<<"<R0>">>, 129>>, <<<<"</R0>">>, 130>>,
       <<<<"<R1>">>, 131>>, <<<<"</R1>">>, 132>>, <<<<"<R2>">>, 133>>,
       <<<<"</R2>">>, 134>>, <<<<"<LE>">>, 135>>, <<<<"</LE>">>, 136>>,
       <<<<"<LE_HULL>">>, 137>>, <<<<"</LE_HULL>">>, 138>>, <<<<"<PH>">>, 139>> >>

\* A mutant of the vocabulary: the sign token has no entry.
VocabWithoutSign ==
    LET n == Len(VocabItems)
        keys == {VocabItems[i][1] : i \in 1..n} \ { <<"-">> }
        lastOf(t) == CHOOSE i \in 1..n :
                        VocabItems[i][1] = t /\ \A j \in (i + 1)..n : VocabItems[j][1] # t
    IN  [t \in keys |-> VocabItems[lastOf(t)][2]]

\* The dictionary the literal makes: of two items with one key the later
\* one stays.
VOCAB ==
    LET n == Len(VocabItems)
        keys == {VocabItems[i][1] : i \in 1..n}
        lastOf(t) == CHOOSE i \in 1..n :
                        VocabItems[i][1] = t /\ \A j \in (i + 1)..n : VocabItems[j][1] # t
    IN  [t \in keys |-> VocabItems[lastOf(t)][2]]

\* The dictionaries of the module as the import leaves them.
ModuleTables ==
    [VOCAB |-> VOCAB, SG_OPS_TEXT |-> [sg \in SgOpsKeys |-> SG_OPS_TEXT(sg)]]

\* No function of the module has been called.
NoResult == [op |-> "", ok |-> TRUE, err |-> NoErr]

(***************************************************************************)
(* Construction                                                            *)
(***************************************************************************)
\* parsed_properties = {} if properties is None else dict(properties): a
\* mutant that keeps the caller's dictionary instead of copying it.
ParsedPropertiesAlias(heap, properties) ==
    IF properties = 0
    THEN [heap |-> Append(heap, EmptyDict), ref |-> Len(heap) + 1]
    ELSE [heap |-> heap, ref |-> properties]

\* {} if properties is None else dict(properties): a new dictionary on the
\* heap, in from_tokens and again in __init__.  properties = 0 is None.
ParsedProperties(heap, properties) ==
    [heap |-> Append(heap, IF properties = 0 THEN EmptyDict ELSE heap[properties]),
     ref |-> Len(heap) + 1]

\* __init__ with local_coords = None and atom_types = None, as both callers
\* in the code leave them.
NewEntity(heap, fields, tokens, properties) ==
    LET own == ParsedProperties(heap, properties)
    IN  [heap |-> own.heap,
         ent |-> [space_group |-> fields.space_group,
                  lattice_params |-> fields.lattice_params,
                  com_frac |-> fields.com_frac, rod |-> fields.rod,
                  selfies_tokens |-> fields.selfies_tokens,
                  local_coords |-> None, atom_types |-> None,
                  tokens |-> IF tokens.some THEN tokens.val ELSE CrystalTokens(fields),
                  properties |-> own.ref]]

(***************************************************************************)
(* Operations                                                              *)
(***************************************************************************)
\* A mutant of the decoder: a number that does not parse is read as 0.0
\* instead of raising.
DecodeFieldsSkipBad(tokens) ==
    LET pf == ParseFields(tokens)
    IN  IF ~pf.ok /\ pf.err.type = "ValueError"
        THEN [ok |-> TRUE, selfies |-> extract("SELF", JoinSpace(tokens)), sg |-> 0,
              lp |-> [a |-> 0, b |-> 0, c |-> 0, alpha |-> 0, beta |-> 0, gamma |-> 0],
              com |-> <<0, 0, 0>>, rod |-> <<0, 0, 0>>]
        ELSE pf

\* What from_tokens recovers before it reads the properties.
DecodeFields(tokens) == ParseFields(tokens)

\* A mutant of the property recovery: nothing is recovered.
RecoveredIntoNothing(d, text) == d

\* The property recovery of from_tokens on the dictionary it made.
RecoveredInto(d, text) == RecoverProperties(d, text, 1)

\* MolecularCrystal.from_tokens(tokens, properties).  props.kind says what
\* the caller passes: "none" (None), "new" (a dictionary props.val it makes
\* for the call) or "same" (the dictionary it passed to the last call).
\* (The one-element sets bind a value that is computed once.)
FromTokens(tokensArg, props) ==
    \E tokens \in {tokensArg} : \E pf \in {DecodeFields(tokens)} :
    LET fresh == props.kind = "new"
        heap0 == IF fresh THEN Append(dicts, props.val) ELSE dicts
        ref0  == IF props.kind = "none" THEN 0
                 ELSE IF fresh THEN Len(dicts) + 1 ELSE last.propsRef
        call == [NoCall EXCEPT !.op = "from_tokens", !.tokens = tokens,
                               !.propsRef = ref0, !.nEnts = Len(ents),
                               !.propsBefore = IF ref0 = 0 THEN EmptyDict ELSE heap0[ref0]]
    IN  /\ props.kind = "same" => last.propsRef # 0
        /\ IF ~pf.ok
           THEN /\ ents' = ents
                /\ made' = made
                /\ dicts' = heap0
                /\ last' = [call EXCEPT !.ok = FALSE, !.err = pf.err]
           ELSE LET parsed == ParsedProperties(heap0, ref0)
                    heap1 == [parsed.heap EXCEPT ![parsed.ref] =
                                 RecoveredInto(@, JoinSpace(tokens))]
                    obj == NewEntity(heap1,
                                     [space_group |-> pf.sg, lattice_params |-> pf.lp,
                                      com_frac |-> pf.com, rod |-> pf.rod,
                                      selfies_tokens |-> pf.selfies],
                                     Some(tokens), parsed.ref)
                IN  /\ ents' = Append(ents, obj.ent)
                    /\ made' = Append(made, [origin |-> "tokens", mol |-> FALSE])
                    /\ dicts' = obj.heap
                    /\ last' = [call EXCEPT !.ent = Len(ents) + 1]
        /\ calls' = calls + 1
        /\ UNCHANGED <<returned, files, plan, tables, result>>

\* e.get_crystal_tokens(): builds the list, stores it in self.tokens and
\* returns it.
GetCrystalTokens(e) ==
    LET toks == CrystalTokens(ents[e])
    IN  /\ ents' = [ents EXCEPT ![e].tokens = toks]
        /\ returned' = [ent |-> e, tokens |-> toks]
        /\ last' = [NoCall EXCEPT !.op = "get_crystal_tokens", !.ent = e,
                                    !.nEnts = Len(ents)]
        /\ calls' = calls + 1
        /\ UNCHANGED <<dicts, made, files, plan, tables, result>>

(***************************************************************************)
(* Inputs                                                                  *)
(***************************************************************************)
\* The longest identity token list drawn.
MaxIdLen == 2

\* Reals in thousandths: zero, -0.0, a negative that rounds to -0.00, exact
\* binary ties (0.125, 0.375, 0.25), a plain value, and values whose
\* rounding carries into a new digit.
NumericSamples == {0, NegZero, -4, 125, -125, 375, 250, 1234, 9996, -9996}

\* Identity tokens: two symbols, the empty string, and a string with a blank.
IdAlphabet == { <<"[C]">>, <<"[=O]">>, <<>>, <<"[N]", " ", "[H]">> }

RECURSIVE IdLists(_)
IdLists(n) ==
    IF n = 0 THEN {<<>>}
    ELSE IdLists(n - 1)
         \cup {Append(l, t) : l \in {x \in IdLists(n - 1) : Len(x) = n - 1}, t \in IdAlphabet}

SpaceGroupSamples == {14, 1, 999, -3, 0}

NoProps == [kind |-> "none", val |-> EmptyDict]

NewProps(d) == [kind |-> "new", val |-> d]

SameProps == [kind |-> "same", val |-> EmptyDict]

Dict1(k, v) == DictSet(EmptyDict, k, v)

Dict2(k1, v1, k2, v2) == DictSet(Dict1(k1, v1), k2, v2)

\* The properties a structure is built with.
BuildProps ==
    {NoProps, NewProps(EmptyDict), NewProps(Dict1("LE", 1500)),
     NewProps(Dict2("LE", -250, "LE_HULL", 125)),
     NewProps(Dict2("LE_HULL", 0, "energy", 7000))}

BaseFields ==
    [space_group |-> 14,
     lattice_params |-> [a |-> 10000, b |-> 11500, c |-> 12250,
                         alpha |-> 90000, beta |-> 101250, gamma |-> 90000],
     com_frac |-> <<125, 500, 750>>,
     rod |-> <<0, -125, 1500>>,
     selfies_tokens |-> << <<"[C]">>, <<"[=O]">> >>]

\* The i-th numeric field, in the encoder's order, set to v.
WithNumeric(f, i, v) ==
    IF i <= 6 THEN [f EXCEPT !.lattice_params[LatticeFields[i].key] = v]
    ELSE IF i <= 9 THEN [f EXCEPT !.com_frac[i - 6] = v]
    ELSE [f EXCEPT !.rod[i - 9] = v]

\* The structures built directly from fields: the base one, varied in one
\* numeric field, in its identity tokens, in its space group or in its
\* properties.
Structures ==
    {[fields |-> WithNumeric(BaseFields, i, v), props |-> NoProps] :
        i \in 1..12, v \in NumericSamples}
    \cup {[fields |-> [BaseFields EXCEPT !.selfies_tokens = l], props |-> NoProps] :
            l \in IdLists(MaxIdLen)}
    \cup {[fields |-> [BaseFields EXCEPT !.space_group = g], props |-> NoProps] :
            g \in SpaceGroupSamples}
    \cup {[fields |-> BaseFields, props |-> p] : p \in BuildProps}

MandatoryTags ==
    <<"SELF", "SG", "A", "B", "C", "ALPHA", "BETA", "GAMMA",
      "X", "Y", "Z", "R0", "R1", "R2">>

Tok(ch) == <<ch>>

\* Bodies a caller may put in a numeric segment: none, a letter, a number
\* ending in a letter, one combined token '-1.5', the digits 7.
NumericBodySamples ==
    { <<>>, <<Tok("a")>>, <<Tok("1"), Tok("."), Tok("a")>>,
      << <<"-", "1", ".", "5">> >>, <<Tok("7")>> }

\* Bodies a caller may put in the SG segment.
SgBodySamples ==
    { <<>>, << <<"a", "_sg">> >>, << <<"_sg">> >>, << <<"1", ".", "5", "_sg">> >>,
      << <<"1", "_sg", "4", "_sg">> >>, << <<"7">> >>, << <<"2", "_sg">>, <<"a">> >> }

\* The first index at which token tok stands in tokens from index from on,
\* 0 if none.
TokenAt(tokens, tok, from) ==
    LET hits == {i \in from..Len(tokens) : tokens[i] = tok}
    IN  IF hits = {} THEN 0 ELSE CHOOSE i \in hits : \A j \in hits : i <= j

SegOpen(tokens, tag) == TokenAt(tokens, Open(tag), 1)

SegClose(tokens, tag) ==
    IF SegOpen(tokens, tag) = 0 THEN 0
    ELSE TokenAt(tokens, Close(tag), SegOpen(tokens, tag) + 1)

\* Whether the list holds an opening and a later closing token of the tag.
HasSegment(tokens, tag) == SegClose(tokens, tag) # 0

\* The tokens between them.
BodyOf(tokens, tag) ==
    IF HasSegment(tokens, tag)
    THEN SubSeq(tokens, SegOpen(tokens, tag) + 1, SegClose(tokens, tag) - 1)
    ELSE <<>>

KeepEdit == [kind |-> "keep", tag |-> "", body |-> <<>>]

DropEdit(t) == [kind |-> "drop", tag |-> t, body |-> <<>>]

BodyEdit(t, b) == [kind |-> "body", tag |-> t, body |-> b]

\* What a caller does to an encoded list before it decodes it: nothing, cut
\* one segment out, or replace one segment's body.
ApplyEdit(edit, tokens) ==
    LET i == SegOpen(tokens, edit.tag)
        j == SegClose(tokens, edit.tag)
    IN  IF edit.kind = "keep" \/ j = 0 THEN tokens
        ELSE IF edit.kind = "drop"
             THEN SubSeq(tokens, 1, i - 1) \o SubSeq(tokens, j + 1, Len(tokens))
        ELSE SubSeq(tokens, 1, i) \o edit.body \o SubSeq(tokens, j, Len(tokens))

Edits ==
    {KeepEdit}
    \cup {DropEdit(MandatoryTags[i]) : i \in 1..Len(MandatoryTags)}
    \cup {BodyEdit(NumericTags[i], b) : i \in 1..Len(NumericTags), b \in NumericBodySamples}
    \cup {BodyEdit("SG", b) : b \in SgBodySamples}

\* Property segments a caller may append.
ExtraSegments ==
    { <<>>,
      Segment("LE", <<Tok("1"), Tok("."), Tok("5")>>),
      Segment("LE", <<Tok("a"), Tok("b"), Tok("c")>>),
      Segment("LE_HULL", <<Tok("-"), Tok("2"), Tok("."), Tok("2"), Tok("5")>>),
      Segment("LE", <<Tok("1"), Tok("."), Tok("5")>>) \o Segment("LE_HULL", <<Tok("a")>>),
      Segment("LE", <<>>) }

\* The extra properties a caller may pass to from_tokens.
DecodeProps ==
    {NoProps, NewProps(EmptyDict), NewProps(Dict2("LE", 9000, "energy", 7000)),
     NewProps(Dict2("LE_HULL", 1000, "note", 2000))}

\* What a caller may do with an encoded list: an edit alone, or appended
\* property segments with extra properties, or both on a few edits.
Plans ==
    {[edit |-> e, extra |-> <<>>, props |-> NoProps] : e \in Edits}
    \cup {[edit |-> KeepEdit, extra |-> x, props |-> p] :
            x \in ExtraSegments, p \in DecodeProps}
    \cup {[edit |-> e, extra |-> x, props |-> p] :
            e \in {DropEdit("SELF"), DropEdit("X"), BodyEdit("A", <<Tok("a")>>),
                   BodyEdit("SG", << <<"a", "_sg">> >>)},
            x \in {Segment("LE", <<Tok("1"), Tok("."), Tok("5")>>)},
            p \in {NewProps(Dict2("LE", 9000, "energy", 7000))}}

\* The plans that decode the list as encoded.
KeepPlans == {pl \in Plans : pl.edit = KeepEdit /\ pl.extra = <<>>}

\* The inputs of a codec run: every structure with the list decoded as it
\* was encoded, and the base structure, bare and with properties, with
\* every plan.
Runs ==
    {[s |-> s, plan |-> pl] : s \in Structures, pl \in KeepPlans}
    \cup {[s |-> s, plan |-> pl] :
            s \in {[fields |-> BaseFields, props |-> NoProps],
                   [fields |-> BaseFields, props |-> NewProps(Dict1("LE", 1500))]},
            pl \in Plans}

NoPlan == [edit |-> KeepEdit, extra |-> <<>>, props |-> NoProps]

PlannedTokens == ApplyEdit(plan.edit, returned.tokens) \o plan.extra

(***************************************************************************)
(* The codec specification: a structure is built from fields, encoded, and *)
(* the list, as the caller left it, is decoded.                            *)
(***************************************************************************)
\* MolecularCrystal(space_group, lattice_params, com_frac, rod,
\* selfies_tokens, properties = p) with p None or a dictionary of the caller.
Built(s) ==
    LET heap0 == IF s.props.kind = "new" THEN <<s.props.val>> ELSE <<>>
        ref0  == IF s.props.kind = "new" THEN 1 ELSE 0
    IN  NewEntity(heap0, s.fields, None, ref0)

InitWith(s, pl) ==
    /\ ents = <<Built(s).ent>>
    /\ dicts = Built(s).heap
    /\ made = <<[origin |-> "fields", mol |-> FALSE]>>
    /\ returned = [ent |-> 0, tokens |-> <<>>]
    /\ last = NoCall
    /\ files = NoFiles
    /\ plan = pl
    /\ calls = 0
    /\ tables = ModuleTables
    /\ result = NoResult

Init == \E r \in Runs : InitWith(r.s, r.plan)

Encode == returned.ent = 0 /\ GetCrystalTokens(1)

Decode == returned.ent # 0 /\ Len(ents) = 1 /\ last.op # "from_tokens"
          /\ FromTokens(PlannedTokens, plan.props)

Next == Encode \/ Decode

Spec == Init /\ [][Next]_vars

(***************************************************************************)
(* Rendering                                                               *)
(*                                                                         *)
(* A rendered text is a sequence of lexemes, the line break being the      *)
(* lexeme "\n".  The fractional coordinates of an atom come out of         *)
(* floating-point trigonometry and a matrix inverse; the text carries for  *)
(* each a lexeme 'point.axis' that stands for its 12-decimal rendering.    *)
(* The renderers are modelled for cell angles strictly between 0 and 180   *)
(* degrees.                                                                *)
(***************************************************************************)
\* str.rstrip(): the text without its trailing whitespace.
RECURSIVE RStrip(_)
RStrip(text) ==
    IF text # <<>> /\ text[Len(text)] \in {"\n", " "}
    THEN RStrip(SubSeq(text, 1, Len(text) - 1))
    ELSE text

\* The digits of n without trailing zeros, at least one.
RECURSIVE StripZeros(_)
StripZeros(chars) ==
    IF Len(chars) > 1 /\ chars[Len(chars)] = "0"
    THEN StripZeros(SubSeq(chars, 1, Len(chars) - 1))
    ELSE chars

\* f"{v}" of a float: the shortest decimal that reads back as v.
StrFloat(v) ==
    (IF v < 0 THEN <<"-">> ELSE <<>>)
    \o NatChars(Abs(Num(v)) \div Pow10(Scale)) \o <<".">>
    \o StripZeros(PadChars(Abs(Num(v)) % Pow10(Scale), Scale))

MissingGeometry ==
    [type |-> "ValueError", msg |-> "Local coordinates and atom types not set", arg |-> <<>>]

\* R @ self.local_coords.T with an array of shape (0,).
MatmulError ==
    [type |-> "ValueError", msg |-> "matmul: Input operand 1 has a mismatch in its core dimension 0",
     arg |-> <<>>]

\* np.linalg.inv of a basis with a zero row.
SingularMatrix == [type |-> "LinAlgError", msg |-> "Singular matrix", arg |-> <<>>]

UnsupportedKey(sg) == [type |-> "KeyError", msg |-> "", arg |-> IntChars(sg)]

\* A mutant of the guard: the test for unset geometry is gone, and the first
\* use of the coordinates raises instead.
GeometryErrorNoGuard(ent) ==
    IF ~ent.local_coords.some \/ ~ent.atom_types.some
    THEN [type |-> "AttributeError", msg |-> "'NoneType' object has no attribute 'T'",
          arg |-> <<>>]
    ELSE IF ent.local_coords.val = <<>> THEN MatmulError
    ELSE IF \E k \in {"a", "b", "c"} : Num(ent.lattice_params[k]) = 0 THEN SingularMatrix
    ELSE NoErr

\* The exception, if any, that the renderers raise before they produce any
\* text: the guard on the geometry, then the assembly of the coordinates.
GeometryError(ent) ==
    IF ~ent.local_coords.some \/ ~ent.atom_types.some THEN MissingGeometry
    ELSE IF ent.local_coords.val = <<>> THEN MatmulError
    ELSE IF \E k \in {"a", "b", "c"} : Num(ent.lattice_params[k]) = 0 THEN SingularMatrix
    ELSE NoErr

\* The header, up to and including the title of the operator loop, after
\* which no line break is written.
CifHeader(ent) ==
    LET lp == ent.lattice_params
    IN  <<"data_generated", "\n",
          "_audit_creation_method generated by MolecularCrystal", "\n",
          "_symmetry_Int_Tables_number ">> \o IntChars(ent.space_group) \o <<"\n">>
        \o <<"_cell_length_a ">> \o StrFloat(lp.a) \o <<"\n">>
        \o <<"_cell_length_b ">> \o StrFloat(lp.b) \o <<"\n">>
        \o <<"_cell_length_c ">> \o StrFloat(lp.c) \o <<"\n">>
        \o <<"_cell_angle_alpha ">> \o StrFloat(lp.alpha) \o <<"\n">>
        \o <<"_cell_angle_beta ">> \o StrFloat(lp.beta) \o <<"\n">>
        \o <<"_cell_angle_gamma ">> \o StrFloat(lp.gamma) \o <<"\n">>
        \o <<"loop_", "\n", "_symmetry_equiv_pos_site_id", "\n",
             "_symmetry_equiv_pos_as_xyz">>

AtomLoopHeader ==
    <<"loop_", "\n", "_atom_site_label", "\n", "_atom_site_type_symbol", "\n",
      "_atom_site_fract_x", "\n", "_atom_site_fract_y", "\n", "_atom_site_fract_z", "\n",
      "_atom_site_occupancy", "\n">>

Min(m, n) == IF m < n THEN m ELSE n

\* The lines of zip(self.atom_types, coords_frac), numbered from 1.
RECURSIVE AtomLines(_, _, _)
AtomLines(atom_types, coords, i) ==
    IF i > Min(Len(atom_types), Len(coords)) THEN <<>>
    ELSE <<atom_types[i]>> \o NatChars(i)
         \o <<" ", atom_types[i],
              " ", coords[i] \o ".x", " ", coords[i] \o ".y", " ", coords[i] \o ".z",
              " ", "1.000000000000", "\n">>
         \o AtomLines(atom_types, coords, i + 1)

\* What to_cif_string has written to its buffer when it returns.
CifString(ent) ==
    CifHeader(ent) \o RStrip(tables.SG_OPS_TEXT[ent.space_group]) \o <<"\n">>
    \o AtomLoopHeader \o AtomLines(ent.atom_types.val, ent.local_coords.val, 1)
    \o <<"#END", "\n">>

\* What gen_cif has written to its file when it returns.
CifFile(ent) ==
    CifHeader(ent) \o tables.SG_OPS_TEXT[ent.space_group] \o <<"\n">>
    \o AtomLoopHeader \o AtomLines(ent.atom_types.val, ent.local_coords.val, 1)
    \o <<"#END">>

(***************************************************************************)
(* The other operations of an entity                                       *)
(***************************************************************************)
\* e.set_property(name, value)
SetProperty(e, name, value) ==
    /\ dicts' = [dicts EXCEPT ![ents[e].properties] = DictSet(@, name, value)]
    /\ last' = [NoCall EXCEPT !.op = "set_property", !.ent = e, !.nEnts = Len(ents)]
    /\ calls' = calls + 1
    /\ UNCHANGED <<ents, made, returned, files, plan, tables, result>>

\* e.set_molecule(local_coords, atom_types)
SetMolecule(e, local_coords, atom_types) ==
    /\ ents' = [ents EXCEPT ![e].local_coords = Some(local_coords),
                            ![e].atom_types = Some(atom_types)]
    /\ made' = [made EXCEPT ![e].mol = TRUE]
    /\ last' = [NoCall EXCEPT !.op = "set_molecule", !.ent = e, !.nEnts = Len(ents)]
    /\ calls' = calls + 1
    /\ UNCHANGED <<dicts, returned, files, plan, tables, result>>

\* A mutant of to_cif_string: an unknown space group is rendered with an
\* empty operator loop.
ToCifStringNoLookup(e) ==
    LET ent == ents[e]
        call == [NoCall EXCEPT !.op = "to_cif_string", !.ent = e, !.nEnts = Len(ents)]
        gerr == GeometryError(ent)
    IN  /\ last' = IF gerr # NoErr THEN [call EXCEPT !.ok = FALSE, !.err = gerr]
                   ELSE IF ent.space_group \notin DOMAIN tables.SG_OPS_TEXT
                   THEN [call EXCEPT !.text = CifHeader(ent) \o <<"\n", "#END", "\n">>]
                   ELSE [call EXCEPT !.text = CifString(ent)]
        /\ calls' = calls + 1
        /\ UNCHANGED <<ents, dicts, made, returned, files, plan, tables, result>>

\* e.to_cif_string()
ToCifString(e) ==
    LET ent == ents[e]
        call == [NoCall EXCEPT !.op = "to_cif_string", !.ent = e, !.nEnts = Len(ents)]
        gerr == GeometryError(ent)
    IN  /\ last' = IF gerr # NoErr THEN [call EXCEPT !.ok = FALSE, !.err = gerr]
                   ELSE IF ent.space_group \notin DOMAIN tables.SG_OPS_TEXT
                   THEN [call EXCEPT !.ok = FALSE, !.err = UnsupportedKey(ent.space_group)]
                   ELSE [call EXCEPT !.text = CifString(ent)]
        /\ calls' = calls + 1
        /\ UNCHANGED <<ents, dicts, made, returned, files, plan, tables, result>>

\* e.gen_cif(filename): the file is opened once the coordinates are
\* assembled, and closed with what was written when the lookup fails.
GenCif(e, filename) ==
    LET ent == ents[e]
        call == [NoCall EXCEPT !.op = "gen_cif", !.ent = e, !.nEnts = Len(ents)]
        gerr == GeometryError(ent)
    IN  /\ IF gerr # NoErr
           THEN /\ last' = [call EXCEPT !.ok = FALSE, !.err = gerr]
                /\ files' = files
           ELSE IF ent.space_group \notin DOMAIN tables.SG_OPS_TEXT
           THEN /\ last' = [call EXCEPT !.ok = FALSE, !.err = UnsupportedKey(ent.space_group)]
                /\ files' = DictSet(files, filename, CifHeader(ent))
           ELSE /\ last' = call
                /\ files' = DictSet(files, filename, CifFile(ent))
        /\ calls' = calls + 1
        /\ UNCHANGED <<ents, dicts, made, returned, plan, tables, result>>

\* The two renderers.
Renders == {"to_cif_string", "gen_cif"}

(***************************************************************************)
(* The life of entities: any interleaving of the operations on a few       *)
(* entities, up to MaxCalls calls.                                         *)
(***************************************************************************)
MaxCalls == 4

MaxEnts == 2

\* Structures built from fields: a supported space group with LE among the
\* properties, an unsupported one, and an unsupported one in a cell with
\* a = 0.
LifeStructures ==
    { [fields |-> BaseFields, props |-> NewProps(Dict1("LE", 1500))],
      [fields |-> [BaseFields EXCEPT !.space_group = 999], props |-> NoProps],
      [fields |-> [BaseFields EXCEPT !.space_group = 999, !.lattice_params.a = 0],
       props |-> NoProps] }

\* Molecules: no atom, one atom, and two positions for one symbol.
Molecules ==
    { [coords |-> <<>>, types |-> <<>>],
      [coords |-> <<"p0">>, types |-> <<"C">>],
      [coords |-> <<"p0", "p1">>, types |-> <<"O">>] }

PropertyNames == {"LE", "energy"}

PropertyValues == {2500}

Filenames == {"out.cif"}

LifeInit == \E s \in LifeStructures : InitWith(s, NoPlan)

LifeEncode == calls < MaxCalls /\ \E e \in 1..Len(ents) : GetCrystalTokens(e)

\* Decoding the token list stored in an entity, with or without extra
\* properties.
LifeDecode ==
    /\ calls < MaxCalls
    /\ Len(ents) < MaxEnts
    /\ \E tokens \in {ents[e].tokens : e \in 1..Len(ents)} :
          \E props \in {NoProps, NewProps(Dict1("energy", 7000))} :
             FromTokens(tokens, props)

LifeSetProperty ==
    /\ calls < MaxCalls
    /\ \E e \in 1..Len(ents) : \E name \in PropertyNames : \E value \in PropertyValues :
          SetProperty(e, name, value)

LifeSetMolecule ==
    /\ calls < MaxCalls
    /\ \E e \in 1..Len(ents) : \E m \in Molecules : SetMolecule(e, m.coords, m.types)

LifeToCifString == calls < MaxCalls /\ \E e \in 1..Len(ents) : ToCifString(e)

LifeGenCif ==
    calls < MaxCalls /\ \E e \in 1..Len(ents) : \E f \in Filenames : GenCif(e, f)

LifeNext ==
    \/ LifeEncode
    \/ LifeDecode
    \/ LifeSetProperty
    \/ LifeSetMolecule
    \/ LifeToCifString
    \/ LifeGenCif

SpecLife == LifeInit /\ [][LifeNext]_vars

(***************************************************************************)
(* Splitting a file of many structures (backend/main.py)                   *)
(***************************************************************************)
\* str.splitlines(True), the lines of a text: each runs up to and including
\* its line break; what follows the last line break, if anything, is a last
\* line without one.  Computed by halves: the lines of both halves, the cut
\* line joined again.
RECURSIVE LinesOf(_)
LinesOf(text) ==
    IF Len(text) <= 1 THEN (IF text = <<>> THEN <<>> ELSE <<text>>)
    ELSE LET h == Len(text) \div 2
             left == CHOOSE l \in {LinesOf(SubSeq(text, 1, h))} : TRUE
             right == CHOOSE r \in {LinesOf(SubSeq(text, h + 1, Len(text)))} : TRUE
             cut == left[Len(left)]
         IN  IF cut[Len(cut)] = "\n" THEN left \o right
             ELSE SubSeq(left, 1, Len(left) - 1) \o <<cut \o right[1]>> \o Tail(right)

IsSpace(lx) == lx \in {" ", "\n"}

\* str.strip() of a line.
RECURSIVE Strip(_)
Strip(line) ==
    IF line = <<>> THEN <<>>
    ELSE IF IsSpace(line[1]) THEN Strip(Tail(line))
    ELSE IF IsSpace(line[Len(line)]) THEN Strip(SubSeq(line, 1, Len(line) - 1))
    ELSE line

\* The spellings of the terminator that re.IGNORECASE lets through, as far
\* as the model writes any.
EndWords == {"#END", "#end", "#End"}

\* _SPLIT_END.match(line): '^\s*#END\s*$'
SplitEndMatches(line) == Len(Strip(line)) = 1 /\ Strip(line)[1] \in EndWords

\* _first_nonempty_line(text)
FirstNonemptyLine(text) ==
    LET lines == LinesOf(text)
        full == {i \in 1..Len(lines) : Strip(lines[i]) # <<>>}
    IN  IF full = {} THEN <<>>
        ELSE Strip(lines[CHOOSE i \in full : \A j \in full : i <= j])

\* _split_multi_cif(big), the second definition of that name in the module,
\* which is the one in force: a block ends with each line the terminator
\* pattern matches and begins after the one before; the lines after the
\* last such line are dropped.
split_multi_cif(big) ==
    LET lines == CHOOSE l \in {LinesOf(big)} : TRUE
        ends == {i \in 1..Len(lines) : SplitEndMatches(lines[i])}
        end(k) == CHOOSE i \in ends : Cardinality({j \in ends : j < i}) = k - 1
        begin(k) == IF k = 1 THEN 1 ELSE end(k - 1) + 1
        block(k) == Concat(SubSeq(lines, begin(k), end(k)))
    IN  [k \in 1..Cardinality(ends) |->
            [header |-> FirstNonemptyLine(block(k)), text |-> block(k), file_stem |-> None]]

\* The most texts joined into one file.
MaxBlocks == 2

BulkMolecules ==
    { [coords |-> <<"p0">>, types |-> <<"C">>],
      [coords |-> <<"p0", "p1">>, types |-> <<"C", "O">>] }

BulkStructures ==
    { [fields |-> [BaseFields EXCEPT !.space_group = sg], props |-> NoProps] : sg \in {14, 1} }

BulkInit == \E s \in BulkStructures : InitWith(s, NoPlan)

BulkSetMolecule ==
    calls < MaxCalls /\ \E m \in BulkMolecules : SetMolecule(1, m.coords, m.types)

BulkToCifString == calls < MaxCalls /\ ToCifString(1)

BulkGenCif == calls < MaxCalls /\ \E f \in Filenames : GenCif(1, f)

\* The caller keeps the text just rendered: texts.append(...).
Collect ==
    /\ last.op \in Renders /\ last.ok
    /\ result.op \in {"", "collect"}
    /\ LET texts == IF result.op = "" THEN <<>> ELSE result.texts
           text == IF last.op = "to_cif_string" THEN last.text
                   ELSE files[CHOOSE f \in DOMAIN files : TRUE]
       IN  /\ Len(texts) < MaxBlocks
           /\ result' = [op |-> "collect", ok |-> TRUE, err |-> NoErr,
                         texts |-> Append(texts, [by |-> last.op, text |-> text])]
    /\ UNCHANGED <<ents, dicts, made, returned, last, files, plan, calls, tables>>

\* _split_multi_cif(''.join(texts))
SplitMultiCif ==
    /\ result.op = "collect"
    /\ result' = [op |-> "_split_multi_cif", ok |-> TRUE, err |-> NoErr,
                  texts |-> result.texts,
                  items |-> split_multi_cif(Concat([i \in 1..Len(result.texts) |->
                                                       result.texts[i].text]))]
    /\ UNCHANGED <<ents, dicts, made, returned, last, files, plan, calls, tables>>

BulkNext ==
    \/ BulkSetMolecule
    \/ BulkToCifString
    \/ BulkGenCif
    \/ Collect
    \/ SplitMultiCif

SpecBulk == BulkInit /\ [][BulkNext]_vars

(***************************************************************************)
(* Token ids: a list is encoded, mapped to ids with the vocabulary, and    *)
(* decoded from the ids and from the list itself.                          *)
(***************************************************************************)
\* vocab[t] of a key that is absent.
KeyError(key) == [type |-> "KeyError", msg |-> "", arg |-> key]

\* A mutant of the id mapping: a token that is absent gets the id of the
\* placeholder token instead of an error.
TokensToIdsPlaceholder(tokens, vocab) ==
    LET keys == CHOOSE d \in {DOMAIN vocab} : TRUE
    IN  [ok |-> TRUE, err |-> NoErr,
         ret |-> Some([i \in 1..Len(tokens) |->
                          IF tokens[i] \in keys THEN vocab[tokens[i]]
                          ELSE vocab[<<"<PH>">>]])]

\* MolecularCrystal.tokens_to_ids(tokens, vocab): [vocab[t] for t in tokens]
\* stops at the first token that is absent.
tokens_to_ids(tokens, vocab) ==
    LET keys == CHOOSE d \in {DOMAIN vocab} : TRUE
        absent == {i \in 1..Len(tokens) : tokens[i] \notin keys}
    IN  IF absent # {}
        THEN [ok |-> FALSE,
              err |-> KeyError(tokens[CHOOSE i \in absent : \A j \in absent : i <= j]),
              ret |-> None]
        ELSE [ok |-> TRUE, err |-> NoErr,
              ret |-> Some([i \in 1..Len(tokens) |-> vocab[tokens[i]]])]

\* A mutant of the inversion: of the tokens the entry is made for, the
\* placeholder token is left out and the token before it takes its id too.
Id2TokShifted(vocab) ==
    [i \in {vocab[t] : t \in DOMAIN vocab} |->
        IF i = 0 THEN CHOOSE t \in DOMAIN vocab : vocab[t] = 0
        ELSE CHOOSE t \in DOMAIN vocab : vocab[t] = i - 1]

\* vocab.items() for the vocabulary of the module: its tokens in the order
\* of the literal, each with its id.
Items(vocab) ==
    [k \in 1..Len(VocabItems) |-> <<VocabItems[k][1], vocab[VocabItems[k][1]]>>]

\* id2tok = {i: t for t, i in vocab.items()}: of two tokens with one id the
\* later one stays.
Id2Tok(vocab) ==
    LET items == CHOOSE s \in {Items(vocab)} : TRUE
        n == Len(items)
        lastOf(i) == CHOOSE k \in 1..n :
                        items[k][2] = i /\ \A j \in (k + 1)..n : items[j][2] # i
    IN  [i \in {items[k][2] : k \in 1..n} |-> items[lastOf(i)][1]]

\* MolecularCrystal.tokens_to_ids(tokens, VOCAB) called on a list.
TokensToIds(tokens) ==
    /\ \E out \in {tokens_to_ids(tokens, tables.VOCAB)} :
          result' = [op |-> "tokens_to_ids", ok |-> out.ok, err |-> out.err,
                     tokens |-> tokens, ret |-> out.ret]
    /\ UNCHANGED <<ents, dicts, made, returned, last, files, plan, calls, tables>>

\* e.get_token_ids(): the ids of self.tokens in generate_vocab(), which
\* returns VOCAB.
GetTokenIds(e) ==
    /\ \E out \in {tokens_to_ids(ents[e].tokens, tables.VOCAB)} :
          result' = [op |-> "get_token_ids", ok |-> out.ok, err |-> out.err,
                     tokens |-> ents[e].tokens, ret |-> out.ret]
    /\ last' = [NoCall EXCEPT !.op = "get_token_ids", !.ent = e, !.nEnts = Len(ents)]
    /\ calls' = calls + 1
    /\ UNCHANGED <<ents, dicts, made, returned, files, plan, tables>>

\* MolecularCrystal.from_token_ids(token_ids, vocab, properties) with vocab
\* None or VOCAB: an id that is absent from the inversion is a KeyError,
\* otherwise the tokens are decoded by from_tokens.
FromTokenIds(token_ids, props) ==
    \E id2tok \in {Id2Tok(tables.VOCAB)} :
    LET absent == {i \in 1..Len(token_ids) : token_ids[i] \notin DOMAIN id2tok}
    IN  IF absent # {}
        THEN /\ last' = [NoCall EXCEPT
                            !.op = "from_token_ids", !.ok = FALSE, !.nEnts = Len(ents),
                            !.err = KeyError(NatChars(token_ids[CHOOSE i \in absent :
                                                          \A j \in absent : i <= j]))]
             /\ calls' = calls + 1
             /\ UNCHANGED <<ents, dicts, made, returned, files, plan, tables, result>>
        ELSE FromTokens([i \in 1..Len(token_ids) |-> id2tok[token_ids[i]]], props)

\* Id lists a caller may pass that no mapping returned.
StrayIds == { <<107, 140>> }

\* The inputs of an id run: the structures that differ in identity tokens
\* or space group with the list decoded as encoded, and the base structure
\* with every plan.
IdsRuns ==
    {r \in Runs : r.s.props = NoProps
                  /\ r.s.fields.lattice_params = BaseFields.lattice_params
                  /\ r.s.fields.com_frac = BaseFields.com_frac
                  /\ r.s.fields.rod = BaseFields.rod}

IdsInit == \E r \in IdsRuns : InitWith(r.s, r.plan)

IdsGetTokenIds == result.op = "" /\ GetTokenIds(1)

IdsEncode == returned.ent = 0 /\ GetCrystalTokens(1)

IdsTokensToIds ==
    /\ last.op \in {"get_crystal_tokens", "get_token_ids"} /\ returned.ent # 0
    /\ result.op \in {"", "get_token_ids"}
    /\ TokensToIds(PlannedTokens)

\* The ids just returned, or stray ones, are decoded.
IdsFromTokenIds ==
    /\ last.op \in {"get_crystal_tokens", "get_token_ids"}
    /\ result.op = "tokens_to_ids"
    /\ \/ result.ok /\ FromTokenIds(result.ret.val, plan.props)
       \/ \E ids \in StrayIds : FromTokenIds(ids, plan.props)

\* The list itself is decoded, once the ids were or could not be made.
IdsFromTokens ==
    /\ calls < MaxCalls
    /\ result.op = "tokens_to_ids"
    /\ \/ last.op = "from_tokens" /\ last.nEnts = 1
       \/ last.op \in {"get_crystal_tokens", "get_token_ids"} /\ ~result.ok
    /\ FromTokens(PlannedTokens, plan.props)

IdsNext ==
    \/ IdsGetTokenIds
    \/ IdsEncode
    \/ IdsTokensToIds
    \/ IdsFromTokenIds
    \/ IdsFromTokens

SpecIds == IdsInit /\ [][IdsNext]_vars

(***************************************************************************)
(* The digitizer: a value is digitized, the tokens are joined and parsed,  *)
(* and the value parsed is digitized again.                                *)
(***************************************************************************)
\* The largest magnitude, in 10^-Scale, of the values drawn one by one.
MaxMilli == 60

\* Values: every real up to MaxMilli either side of zero, -0.0, and values
\* whose rounding carries into a new digit.
DigitValues == (-MaxMilli..MaxMilli) \cup NumericSamples \cup {99995, -99995, 999500}

Precisions == 0..Scale

DigitInit ==
    /\ \E v \in DigitValues, p \in Precisions :
          result = [op |-> "", ok |-> TRUE, err |-> NoErr, v |-> v, p |-> p, first |-> None]
    /\ ents = <<>> /\ dicts = <<>> /\ made = <<>>
    /\ returned = [ent |-> 0, tokens |-> <<>>]
    /\ last = NoCall /\ files = NoFiles /\ plan = NoPlan /\ calls = 0
    /\ tables = ModuleTables

\* split_numeric(v, p) of the value at hand.
Digitize ==
    /\ result.op \in {"", "float"}
    /\ result' = [result EXCEPT !.op = "split_numeric"]
                    @@ [ret |-> split_numeric(result.v, result.p)]
    /\ UNCHANGED <<ents, dicts, made, returned, last, files, plan, calls, tables>>

\* float(''.join(tokens)) of the tokens just returned, the first time.
ParseJoined ==
    /\ result.op = "split_numeric" /\ ~result.first.some
    /\ result' = [op |-> "float", ok |-> TRUE, err |-> NoErr,
                  v |-> FloatVal(Concat(result.ret)), p |-> result.p,
                  first |-> Some(result.ret)]
    /\ UNCHANGED <<ents, dicts, made, returned, last, files, plan, calls, tables>>

DigitNext == Digitize \/ ParseJoined

SpecDigit == DigitInit /\ [][DigitNext]_vars

(***************************************************************************)
(* Frames: entities are decoded from one list, and every operation is      *)
(* applied to any of them.                                                 *)
(***************************************************************************)
\* The most calls made on the entities of a frame run.
MaxSteps == 3

\* The lists decoded: the list stored in the first entity, as it is and
\* with a property segment after it.
FrameLists ==
    {ents[1].tokens,
     ents[1].tokens \o Segment("LE", <<Tok("1"), Tok("."), Tok("5")>>)}

\* The extra properties passed: none, a dictionary made for the call, the
\* dictionary passed to the call before.
FrameProps == {NoProps, NewProps(Dict1("energy", 7000)), SameProps}

FrameInit == InitWith([fields |-> BaseFields, props |-> NoProps], NoPlan)

FrameDecode ==
    /\ calls < MaxSteps
    /\ Len(ents) <= MaxEnts
    /\ \E tokens \in FrameLists : \E props \in FrameProps : FromTokens(tokens, props)

FrameSetProperty ==
    /\ calls < MaxSteps
    /\ \E e \in 1..Len(ents) : \E name \in PropertyNames : \E value \in PropertyValues :
          SetProperty(e, name, value)

FrameSetMolecule ==
    /\ calls < MaxSteps
    /\ \E e \in 1..Len(ents) : \E m \in BulkMolecules : SetMolecule(e, m.coords, m.types)

FrameEncode == calls < MaxSteps /\ \E e \in 1..Len(ents) : GetCrystalTokens(e)

FrameGetTokenIds == calls < MaxSteps /\ \E e \in 1..Len(ents) : GetTokenIds(e)

FrameToCifString == calls < MaxSteps /\ \E e \in 1..Len(ents) : ToCifString(e)

FrameGenCif ==
    calls < MaxSteps /\ \E e \in 1..Len(ents) : \E f \in Filenames : GenCif(e, f)

FrameNext ==
    \/ FrameDecode
    \/ FrameSetProperty
    \/ FrameSetMolecule
    \/ FrameEncode
    \/ FrameGetTokenIds
    \/ FrameToCifString
    \/ FrameGenCif

SpecFrame == FrameInit /\ [][FrameNext]_vars

(***************************************************************************)
(* Token-mode ingestion: upload_dataset hands the items of structures.json *)
(* to parse_one_item one by one.                                           *)
(***************************************************************************)
\* The most items of an uploaded file.
MaxItems == 2

\* Token lists of an item: none, the encodings of a structure with a
\* supported and with an unsupported space group, and a list without its
\* <X> segment.
ItemTokens ==
    {None,
     Some(CrystalTokens(BaseFields)),
     Some(CrystalTokens([BaseFields EXCEPT !.space_group = 999])),
     Some(ApplyEdit(DropEdit("X"), CrystalTokens(BaseFields)))}

\* An item: its tokens, and whether it has the energy key and the density
\* key of the upload.
UploadItems == [tokens : ItemTokens, energy : BOOLEAN, density : BOOLEAN]

\* The names of the items: the keys of the uploaded dictionary.
ItemName(i) == "s" \o NatChars(i)[1]

\* build_mc_from_tokens once from_tokens has parsed the fields pf: the
\* entity it makes, after set_molecule; or the error from_tokens raised.
BuiltFrom(pf, tokens, mol) ==
    IF ~pf.ok THEN [ok |-> FALSE, err |-> pf.err]
    ELSE [ok |-> TRUE, err |-> NoErr,
          mc |-> [NewEntity(<<>>, [space_group |-> pf.sg, lattice_params |-> pf.lp,
                                   com_frac |-> pf.com, rod |-> pf.rod,
                                   selfies_tokens |-> pf.selfies],
                            Some(tokens), 0).ent
                    EXCEPT !.local_coords = Some(mol.coords),
                           !.atom_types = Some(mol.types)]]

\* build_mc_from_tokens(tokens, atom_types, local_coords, extra)
BuildMc(tokens, mol) == BuiltFrom(DecodeFields(tokens), tokens, mol)

\* compute_density_for_item raises.  It builds the entity again, from the
\* arguments parse_one_item built it from (built is that entity), and then
\* to_cif_string raises, or the parser of the CIF text does, which lies
\* outside the module (parses says whether it accepts the text).
DensityRaises(built, parses) ==
    \/ GeometryError(built.mc) # NoErr
    \/ built.mc.space_group \notin DOMAIN tables.SG_OPS_TEXT
    \/ ~parses

\* parse_one_item from line 20 on, built being what build_mc_from_tokens
\* gave: (meta, warn), or the error raised.  failed says that the density
\* computation raised and was caught.
ParseBuilt(name, obj, density_key, parses, built) ==
    IF ~built.ok
    THEN [raised |-> built.err, meta |-> None, failed |-> FALSE, warn |-> None]
    ELSE [raised |-> NoErr, warn |-> None,
          failed |-> ~(density_key /\ obj.density) /\ DensityRaises(built, parses),
          meta |-> Some([name |-> name, sg |-> built.mc.space_group,
                         density |-> IF density_key /\ obj.density THEN "item"
                                     ELSE IF DensityRaises(built, parses) THEN "none"
                                     ELSE "computed"])]

\* parse_one_item(name, obj, energy_key, density_key, atom_types,
\* local_coords, compute_density_cb)
ParseOneItem(name, obj, density_key, mol, parses) ==
    IF ~obj.tokens.some \/ obj.tokens.val = <<>>
    THEN [raised |-> NoErr, meta |-> None, failed |-> FALSE,
          warn |-> Some([name |-> name, msg |-> "missing 'tokens'"])]
    ELSE IF ~obj.energy
    THEN [raised |-> NoErr, meta |-> None, failed |-> FALSE,
          warn |-> Some([name |-> name, msg |-> "missing energy_key"])]
    ELSE ParseBuilt(name, obj, density_key, parses, BuildMc(obj.tokens.val, mol))

\* upload_dataset in tokens mode, before the first item: the number of
\* items of the payload, the density key (given or not) and the molecule of
\* the .xyz file.
UploadInit ==
    /\ \E count \in 0..MaxItems, density_key \in BOOLEAN, mol \in BulkMolecules :
          result = [op |-> "upload_dataset", ok |-> TRUE, err |-> NoErr,
                    count |-> count, density_key |-> density_key, mol |-> mol,
                    payload |-> <<>>, warns |-> <<>>, manifest |-> <<>>, failed |-> {},
                    saved |-> FALSE]
    /\ ents = <<>> /\ dicts = <<>> /\ made = <<>>
    /\ returned = [ent |-> 0, tokens |-> <<>>]
    /\ last = NoCall /\ files = NoFiles /\ plan = NoPlan /\ calls = 0
    /\ tables = ModuleTables

\* One turn of the loop over payload.items(), the next item being obj: an
\* error of parse_one_item ends the upload, a warning is kept and the item
\* skipped, and otherwise the item's meta joins the manifest.
IngestItem ==
    /\ result.op = "upload_dataset" /\ result.ok /\ ~result.saved
    /\ Len(result.payload) < result.count
    /\ \E obj \in UploadItems : \E parses \in BOOLEAN :
       \E name \in {ItemName(Len(result.payload) + 1)} :
       \E out \in {ParseOneItem(name, obj, result.density_key, result.mol, parses)} :
          result' = IF out.raised # NoErr
                    THEN [result EXCEPT !.payload = Append(@, obj),
                                        !.ok = FALSE, !.err = out.raised]
                    ELSE IF out.warn.some
                    THEN [result EXCEPT !.payload = Append(@, obj),
                                        !.warns = Append(@, out.warn.val)]
                    ELSE [result EXCEPT !.payload = Append(@, obj),
                                        !.manifest = Append(@, out.meta.val),
                                        !.failed = IF out.failed THEN @ \cup {name} ELSE @]
    /\ UNCHANGED <<ents, dicts, made, returned, last, files, plan, calls, tables>>

\* After the loop: manifest.json and meta.json are saved and the count and
\* the warnings returned.
SaveDataset ==
    /\ result.op = "upload_dataset" /\ result.ok /\ ~result.saved
    /\ Len(result.payload) = result.count
    /\ result' = [result EXCEPT !.saved = TRUE]
    /\ UNCHANGED <<ents, dicts, made, returned, last, files, plan, calls, tables>>

UploadNext == IngestItem \/ SaveDataset

SpecUpload == UploadInit /\ [][UploadNext]_vars

(***************************************************************************)
(* Properties of the codec                                                 *)
(***************************************************************************)
Decoded == last.op = "from_tokens"

\* The last decode was given the list exactly as get_crystal_tokens
\* returned it.
RoundTripped == Decoded /\ returned.ent # 0 /\ last.tokens = returned.tokens

SrcEnt == ents[returned.ent]

DecodedEnt == ents[last.ent]

PropsOf(e) == dicts[e.properties]

AllTags == {MandatoryTags[i] : i \in 1..Len(MandatoryTags)} \cup {"LE", "LE_HULL"}

TagLexemes == {Open(t)[1] : t \in AllTags} \cup {Close(t)[1] : t \in AllTags}

\* A token without whitespace and without tag text.
PlainToken(t) == \A i \in 1..Len(t) : t[i] # " " /\ t[i] \notin TagLexemes

\* d is v rounded to p decimals: the multiple of 10^-p nearest to v, the
\* even one on a tie.
NearestAt(d, v, p) ==
    LET step == Pow10(Scale - p)
        dist == Abs(Num(d) - Num(v))
    IN  /\ Num(d) % step = 0
        /\ 2 * dist <= step
        /\ 2 * dist = step => (Num(d) \div step) % 2 = 0

\* The twelve numeric fields of an entity in the order of the claim, and
\* the declared precision of each.
NumericField(e, i) ==
    IF i <= 6 THEN e.lattice_params[LatticeFields[i].key]
    ELSE IF i <= 9 THEN e.com_frac[i - 6]
    ELSE e.rod[i - 9]

DeclaredPrecision == <<2, 2, 2, 1, 1, 1, 3, 3, 3, 2, 2, 2>>

SameUpToPrecision(src, dec) ==
    /\ dec.space_group = src.space_group
    /\ dec.selfies_tokens = src.selfies_tokens
    /\ \A i \in 1..12 :
          NearestAt(NumericField(dec, i), NumericField(src, i), DeclaredPrecision[i])

\* C1, as claimed: for every structure built from fields whose identity
\* tokens hold no whitespace and no tag text, decoding its encoding gives
\* the same space group, the same identity tokens and every numeric field
\* rounded to its declared precision.
C1_RoundTripAnyPlainTokens ==
    (RoundTripped /\ \A i \in 1..Len(SrcEnt.selfies_tokens) :
                         PlainToken(SrcEnt.selfies_tokens[i]))
    => (last.ok /\ SameUpToPrecision(SrcEnt, DecodedEnt))

\* C1, amended: the same, for identity tokens that are moreover not the
\* empty string (str.split drops an empty token).
C1_RoundTrip ==
    (RoundTripped /\ \A i \in 1..Len(SrcEnt.selfies_tokens) :
                         /\ PlainToken(SrcEnt.selfies_tokens[i])
                         /\ SrcEnt.selfies_tokens[i] # <<>>)
    => (last.ok /\ SameUpToPrecision(SrcEnt, DecodedEnt))

\* A round trip in which a negative tie was rounded: -0.125 came back -0.12.
C1_Witness ==
    /\ RoundTripped /\ last.ok
    /\ SrcEnt.selfies_tokens # <<>>
    /\ SrcEnt.rod[2] = -125 /\ DecodedEnt.rod[2] = -120

\* C2, as claimed: decoding the encoding of a structure whose properties
\* hold LE and/or LE_HULL, with no extra properties, gives an entity whose
\* properties hold those keys with the same values.
C2_PropertiesRoundTrip ==
    (RoundTripped /\ last.propsRef = 0)
    => /\ last.ok
       /\ \A k \in {"LE", "LE_HULL"} \cap DOMAIN PropsOf(SrcEnt) :
             /\ k \in DOMAIN PropsOf(DecodedEnt)
             /\ PropsOf(DecodedEnt)[k] = PropsOf(SrcEnt)[k]

\* The segments of a token list read off from its first token on: each
\* starts with an opening tag and runs to the next closing tag of its name.
RECURSIVE SegmentsOf(_)
SegmentsOf(tokens) ==
    IF tokens = <<>> THEN <<>>
    ELSE LET tags == {t \in AllTags : tokens[1] = Open(t)
                                       /\ TokenAt(tokens, Close(t), 2) # 0}
         IN  IF tags = {} THEN <<[tag |-> "?", body |-> tokens]>>
             ELSE LET t == CHOOSE x \in tags : TRUE
                      j == TokenAt(tokens, Close(t), 2)
                  IN  <<[tag |-> t, body |-> SubSeq(tokens, 2, j - 1)]>>
                      \o SegmentsOf(SubSeq(tokens, j + 1, Len(tokens)))

\* body is v digitized at p decimals: one character per token, an optional
\* sign, digits, and for p > 0 a point followed by exactly p digits.
Digitized(body, v, p) ==
    LET s == Concat(body)
    IN  /\ \A k \in 1..Len(body) :
              Len(body[k]) = 1 /\ (IsDigit(body[k][1]) \/ body[k][1] \in {"-", "."})
        /\ FloatOk(s)
        /\ NearestAt(FloatVal(s), v, p)
        /\ IsNeg(s) <=> v < 0
        /\ IF p = 0 THEN DotAt(s) = 0 ELSE DotAt(s) = Len(s) - p

\* C3: get_crystal_tokens returns exactly the 14 segments SELF, SG, A, B,
\* C, ALPHA, BETA, GAMMA, X, Y, Z, R0, R1, R2 in this order, the SELF body
\* being the identity tokens, the SG body the one token '<space_group>_sg',
\* each numeric body the value digitized at its precision, and no LE or
\* LE_HULL segment whatever the properties hold.
C3_EncodedSegments ==
    last.op = "get_crystal_tokens"
    => LET e == ents[last.ent]
           segs == SegmentsOf(returned.tokens)
       IN  /\ e.tokens = returned.tokens
           /\ Len(segs) = Len(MandatoryTags)
           /\ \A i \in 1..Len(segs) : segs[i].tag = MandatoryTags[i]
           /\ segs[1].body = e.selfies_tokens
           /\ segs[2].body = << IntChars(e.space_group) \o <<"_sg">> >>
           /\ \A i \in 1..12 :
                 Digitized(segs[i + 2].body, NumericField(e, i), DeclaredPrecision[i])
           /\ \A i \in 1..Len(returned.tokens) :
                 returned.tokens[i] \notin {Open("LE"), Close("LE"),
                                            Open("LE_HULL"), Close("LE_HULL")}

\* An encoding of an entity whose properties hold LE.
C3_Witness ==
    /\ last.op = "get_crystal_tokens"
    /\ "LE" \in DOMAIN PropsOf(ents[last.ent])
    /\ Len(returned.tokens) > 0

\* C4, as claimed: for each of the 14 mandatory tags, decoding a list that
\* holds every other mandatory segment but not that one fails and returns
\* no entity.
C4_MissingTagFails ==
    Decoded
    => \A i \in 1..Len(MandatoryTags) :
          (/\ ~HasSegment(last.tokens, MandatoryTags[i])
           /\ \A j \in 1..Len(MandatoryTags) :
                 j # i => HasSegment(last.tokens, MandatoryTags[j]))
          => (~last.ok /\ last.ent = 0)

\* Whether the exception names the tag.
NamesTag(err, tag) == \E i \in 1..Len(err.arg) : err.arg[i] = tag

\* C5, as claimed: decoding a list without the SG segment, or with an empty
\* SG body, raises an error that names the tag SG and is of another kind
\* than the errors raised for a malformed space group or number.
C5_MissingSgNamed ==
    (Decoded /\ (~HasSegment(last.tokens, "SG") \/ BodyOf(last.tokens, "SG") = <<>>))
    => /\ ~last.ok
       /\ last.err.type # "ValueError"
       /\ NamesTag(last.err, "SG")

\* Every mandatory segment is there and well formed.
MandatoryWellFormed(tokens) ==
    /\ HasSegment(tokens, "SELF")
    /\ HasSegment(tokens, "SG")
    /\ BodyOf(tokens, "SG") # <<>>
    /\ IntOk(RemoveSg(BodyOf(tokens, "SG")[1]))
    /\ \A i \in 1..Len(NumericTags) :
          /\ HasSegment(tokens, NumericTags[i])
          /\ FloatOk(Concat(BodyOf(tokens, NumericTags[i])))

\* C6: with every mandatory segment well formed, an LE (LE_HULL) segment
\* whose joined body is a number puts that number in the properties; one
\* whose joined body is no number leaves the decode successful and the key
\* as the caller supplied it, not added.
C6_LenientProperties ==
    (Decoded /\ MandatoryWellFormed(last.tokens))
    => /\ last.ok
       /\ \A k \in {"LE", "LE_HULL"} :
             HasSegment(last.tokens, k)
             => LET s == Concat(BodyOf(last.tokens, k))
                    P == PropsOf(DecodedEnt)
                IN  IF FloatOk(s)
                    THEN k \in DOMAIN P /\ P[k] = FloatVal(s)
                    ELSE /\ k \in DOMAIN P <=> k \in DOMAIN last.propsBefore
                         /\ k \in DOMAIN P => P[k] = last.propsBefore[k]

\* A decode of '<LE> 1 . 5 </LE> <LE_HULL> a </LE_HULL>': LE is 1.5 and
\* LE_HULL is absent.
C6_Witness ==
    /\ Decoded /\ last.ok
    /\ BodyOf(last.tokens, "LE") = <<Tok("1"), Tok("."), Tok("5")>>
    /\ BodyOf(last.tokens, "LE_HULL") = <<Tok("a")>>
    /\ PropsOf(DecodedEnt)["LE"] = 1500
    /\ "LE_HULL" \notin DOMAIN PropsOf(DecodedEnt)

\* A numeric segment whose joined body is no number, or an SG segment whose
\* first token is no integer once '_sg' is removed.
MalformedNumeric(tokens) ==
    \/ \E i \in 1..Len(NumericTags) :
          /\ HasSegment(tokens, NumericTags[i])
          /\ ~FloatOk(Concat(BodyOf(tokens, NumericTags[i])))
    \/ /\ HasSegment(tokens, "SG")
       /\ BodyOf(tokens, "SG") # <<>>
       /\ ~IntOk(RemoveSg(BodyOf(tokens, "SG")[1]))

\* C7: a malformed numeric or SG segment aborts the decode with an error
\* and no entity is made, whatever the other segments are.
C7_StrictNumerics ==
    (Decoded /\ MalformedNumeric(last.tokens))
    => (~last.ok /\ last.ent = 0 /\ Len(ents) = last.nEnts)

\* A failed decode of a list whose A body is a letter and which carries a
\* well-formed LE segment.
C7_Witness ==
    /\ Decoded /\ ~last.ok /\ last.err.type = "ValueError"
    /\ BodyOf(last.tokens, "A") = <<Tok("a")>>
    /\ FloatOk(Concat(BodyOf(last.tokens, "LE")))

\* The keys the decoder recovers from a list.
Recovered(tokens) ==
    {k \in {"LE", "LE_HULL"} :
        HasSegment(tokens, k) /\ FloatOk(Concat(BodyOf(tokens, k)))}

\* C8: the decoded properties are the caller's extra properties with LE and
\* LE_HULL overwritten by the recovered values exactly when their segments
\* are there with a numeric body, and the caller's mapping is as it was.
C8_MergedProperties ==
    Decoded
    => /\ last.propsRef # 0 => dicts[last.propsRef] = last.propsBefore
       /\ last.ok
          => LET P == PropsOf(DecodedEnt)
                 B == last.propsBefore
                 R == Recovered(last.tokens)
             IN  /\ DOMAIN P = (DOMAIN B) \cup R
                 /\ \A k \in DOMAIN P :
                       P[k] = IF k \in R THEN FloatVal(Concat(BodyOf(last.tokens, k)))
                              ELSE B[k]

\* A decode that overwrote the caller's LE = 9.0 by the recovered 1.5 and
\* kept the caller's energy.
C8_Witness ==
    /\ Decoded /\ last.ok /\ last.propsRef # 0
    /\ "LE" \in DOMAIN last.propsBefore /\ last.propsBefore["LE"] = 9000
    /\ PropsOf(DecodedEnt)["LE"] = 1500
    /\ PropsOf(DecodedEnt)["energy"] = 7000
    /\ dicts[last.propsRef]["LE"] = 9000

(***************************************************************************)
(* Properties of the life of an entity                                     *)
(***************************************************************************)
GeometrySet(ent) == ent.local_coords.some /\ ent.atom_types.some

\* C9: an entity made by from_tokens has no local geometry until
\* set_molecule is called on it, and until then every to_cif_string and
\* gen_cif on it fails with the missing-geometry error, whatever other
\* calls came in between; once set_molecule has been called on it, a
\* rendering does not fail with that error.
C9_GeometryNeedsSetMolecule ==
    /\ \A e \in 1..Len(ents) :
          (made[e].origin = "tokens" /\ ~made[e].mol) => ~GeometrySet(ents[e])
    /\ (last.op \in Renders /\ made[last.ent].origin = "tokens")
       => IF made[last.ent].mol
          THEN last.err # MissingGeometry
          ELSE /\ ~last.ok
               /\ last.err.type = "ValueError"
               /\ last.err.msg = "Local coordinates and atom types not set"
               /\ last.text = <<>>

\* A rendering of a decoded entity that failed for want of geometry after
\* a set_property on that entity.
C9_Witness ==
    /\ last.op = "to_cif_string" /\ ~last.ok /\ last.err = MissingGeometry
    /\ made[last.ent].origin = "tokens" /\ ~made[last.ent].mol
    /\ "LE" \in DOMAIN PropsOf(ents[last.ent])
    /\ PropsOf(ents[last.ent])["LE"] = 2500

\* The step is a rendering of an entity with geometry set whose space group
\* is no key of the operator table.
RendersUnsupported ==
    /\ last'.op \in Renders
    /\ GeometrySet(ents[last'.ent])
    /\ ents[last'.ent].space_group \notin SgOpsKeys

\* The rendering failed with an error of another type than the other
\* rendering errors, carrying the space group; no text was returned, the
\* entities and their properties are as before.
FailsUnsupported ==
    /\ ~last'.ok
    /\ last'.err.type \notin {MissingGeometry.type, MatmulError.type, SingularMatrix.type}
    /\ last'.err.arg = IntChars(ents[last'.ent].space_group)
    /\ last'.text = <<>>
    /\ ents' = ents
    /\ dicts' = dicts

\* After a failed rendering of an entity, get_crystal_tokens on it succeeds
\* and returns the encoding of its fields.
EncodesAfterFailure ==
    (last.op \in Renders /\ ~last.ok
     /\ last'.op = "get_crystal_tokens" /\ last'.ent = last.ent)
    => (last'.ok /\ returned'.tokens = CrystalTokens(ents[last.ent]))

Assembles(ent) ==
    /\ ent.local_coords.val # <<>>
    /\ \A k \in {"a", "b", "c"} : Num(ent.lattice_params[k]) # 0

AtomSiteLines(text) ==
    LET lines == LinesOf(text)
        from == CHOOSE i \in 1..Len(lines) : lines[i] = <<"_atom_site_occupancy", "\n">>
        upto == CHOOSE i \in 1..Len(lines) : lines[i][1] = "#END"
    IN  [i \in 1..(upto - from - 1) |-> SubSeq(lines[from + i], 1, Len(lines[from + i]) - 1)]

Max(m, n) == IF m < n THEN n ELSE m

\* The text the last call rendered: the string returned, or the file
\* written.
RenderedText ==
    IF last.op = "to_cif_string" THEN last.text
    ELSE files[CHOOSE f \in DOMAIN files : TRUE]

\* C11, as claimed: a successful rendering has one atom-site line for every
\* position and every symbol given to set_molecule, in the given order, the
\* i-th being '<symbol_i><i> <symbol_i> x y z 1.000000000000' with the
\* coordinates of the i-th position, also when the two sequences given to
\* set_molecule differ in length.
C11_OneLinePerAtom ==
    (last.op \in Renders /\ last.ok)
    => LET ent == ents[last.ent]
           types == ent.atom_types.val
           coords == ent.local_coords.val
           lines == AtomSiteLines(RenderedText)
       IN  /\ Len(lines) = Max(Len(types), Len(coords))
           /\ \A i \in 1..Len(lines) :
                 /\ i <= Len(types) /\ i <= Len(coords)
                 /\ lines[i] = <<types[i]>> \o NatChars(i)
                               \o <<" ", types[i], " ", coords[i] \o ".x",
                                    " ", coords[i] \o ".y", " ", coords[i] \o ".z",
                                    " ", "1.000000000000">>

\* C12, as claimed: every rendered text ends with the terminator line
\* '#END', and splitting the concatenation of n rendered texts gives n
\* blocks, the i-th holding the i-th text.
C12_SplitGivesBack ==
    /\ (last.op \in Renders /\ last.ok)
       => LinesOf(RenderedText)[Len(LinesOf(RenderedText))][1] = "#END"
    /\ result.op = "_split_multi_cif"
       => /\ Len(result.items) = Len(result.texts)
          /\ \A i \in 1..Len(result.items) : result.items[i].text = result.texts[i].text

\* C13: gen_cif and to_cif_string are one rendering.  A to_cif_string call
\* that follows a gen_cif call on the same entity ends as that call ended
\* (both succeed, or both fail with the same error), and when they succeed
\* the string returned is, lexeme for lexeme, the text of the file written.
C13_FileIsString ==
    [][(last.op = "gen_cif" /\ last'.op = "to_cif_string" /\ last'.ent = last.ent)
        => /\ last'.ok = last.ok
           /\ last'.err = last.err
           /\ last.ok => last'.text = files[CHOOSE f \in DOMAIN files : TRUE]]_vars

\* The vocabulary is one-to-one onto the ids 0..n-1, and looking up a
\* token's id in the inversion gives the token back.
VocabBijection ==
    \E items \in {Items(tables.VOCAB)} : \E id2tok \in {Id2Tok(tables.VOCAB)} :
        /\ DOMAIN tables.VOCAB = {items[k][1] : k \in 1..Len(items)}
        /\ Cardinality({items[k][2] : k \in 1..Len(items)}) = Cardinality(DOMAIN tables.VOCAB)
        /\ {items[k][2] : k \in 1..Len(items)} = 0..(Cardinality(DOMAIN tables.VOCAB) - 1)
        /\ \A k \in 1..Len(items) : id2tok[items[k][2]] = items[k][1]

\* A list was decoded from its ids and then from itself.
DecodedBothWays ==
    /\ last.op = "from_tokens" /\ last'.op = "from_tokens"
    /\ result.op = "tokens_to_ids" /\ result.ok /\ last'.tokens = result.tokens

\* C14: VOCAB, which no step changes, is a bijection between its tokens
\* and the ids 0..n-1 whenever a list is mapped to ids, and
\* id2tok[VOCAB[t]] = t for every token; and for a token list T over the
\* vocabulary, from_token_ids(tokens_to_ids(T, VOCAB)) ends as
\* from_tokens(T) ends: with the same error, or with an entity of the same
\* fields, token list and properties.
C14_IdsRoundTrip ==
    /\ [][/\ tables' = tables
          /\ (result'.op = "tokens_to_ids" /\ result.op # "tokens_to_ids") => VocabBijection]_vars
    /\ [][DecodedBothWays
          => /\ last.tokens = result.tokens
             /\ last'.ok = last.ok
             /\ last'.err = last.err
             /\ last.ok => /\ [ents'[last'.ent] EXCEPT !.properties = 0]
                               = [ents'[last.ent] EXCEPT !.properties = 0]
                           /\ dicts'[ents'[last'.ent].properties]
                               = dicts'[ents'[last.ent].properties]]_vars

\* A list over the vocabulary was decoded from its ids and from itself, and
\* both gave an entity.
C14_Witness ==
    /\ result.op = "tokens_to_ids" /\ result.ok
    /\ Len(ents) = 3 /\ last.op = "from_tokens" /\ last.ok
    /\ ents[2].tokens = result.tokens /\ ents[3].tokens = result.tokens

\* The tokens of the list last mapped to ids that the vocabulary lacks.
AbsentTokens ==
    LET keys == CHOOSE d \in {DOMAIN ModuleTables.VOCAB} : TRUE
    IN  {i \in 1..Len(result.tokens) : result.tokens[i] \notin keys}

\* C15: a lookup has no fallback.  When the list given to tokens_to_ids (or
\* the stored list, for get_token_ids) holds a token the vocabulary lacks,
\* the call fails with a KeyError that carries the first such token, no id
\* list is returned, and the dictionaries of the module are as they were.
C15_NoFallback ==
    (result.op \in {"tokens_to_ids", "get_token_ids"} /\ AbsentTokens # {})
    => /\ ~result.ok
       /\ result.err = KeyError(result.tokens[CHOOSE i \in AbsentTokens :
                                                 \A j \in AbsentTokens : i <= j])
       /\ result.ret = None
       /\ tables = ModuleTables

\* tokens_to_ids was called on a list whose space-group token the
\* vocabulary lacks, the other tokens being known.
C15_Witness ==
    /\ result.op = "tokens_to_ids" /\ ~result.ok
    /\ Cardinality(AbsentTokens) = 1
    /\ \E i \in AbsentTokens : result.tokens[i] = SgToken(999)

\* C16: the digitizer is idempotent through parsing.  The tokens of the
\* value parsed from the joined tokens of split_numeric(v, p) are, with the
\* same p, the tokens of split_numeric(v, p).
C16_DigitizeIdempotent ==
    (result.op = "split_numeric" /\ result.first.some) => result.ret = result.first.val

\* A negative value that rounds to zero was digitized ('-0.00'), parsed and
\* digitized again.
C16_Witness ==
    /\ result.op = "split_numeric" /\ result.first.some
    /\ result.p = 2
    /\ result.first.val = <<Tok("-"), Tok("0"), Tok("."), Tok("0"), Tok("0")>>

\* The operations said to be pure.
PureOps == {"get_crystal_tokens", "get_token_ids", "to_cif_string", "gen_cif"}

\* The step is a call of one of the operations in ops on an entity.
CallOf(ops) == calls' = calls + 1 /\ last'.op \in ops

\* Two dictionaries differ in at most one key.
OneKeyApart(d1, d2) ==
    \E k \in DOMAIN d2 :
        \A x \in ((DOMAIN d1) \cup (DOMAIN d2)) \ {k} :
            x \in DOMAIN d1 /\ x \in DOMAIN d2 /\ d1[x] = d2[x]

\* C17: encoding and rendering leave the entity alone.  A call of
\* get_crystal_tokens, get_token_ids, to_cif_string or gen_cif changes no
\* attribute of any entity, the stored token list included, and no
\* dictionary; set_molecule changes the local geometry of its entity only;
\* set_property changes one key of its entity's properties only.
C17_OnlySettersChange ==
    [][/\ CallOf(PureOps) => (ents' = ents /\ dicts' = dicts)
       /\ CallOf({"set_molecule"})
          => /\ dicts' = dicts
             /\ ents' = [ents EXCEPT ![last'.ent].local_coords = ents'[last'.ent].local_coords,
                                     ![last'.ent].atom_types = ents'[last'.ent].atom_types]
       /\ CallOf({"set_property"})
          => /\ ents' = ents
             /\ \A d \in 1..Len(dicts) : d # ents[last'.ent].properties => dicts'[d] = dicts[d]
             /\ OneKeyApart(dicts[ents[last'.ent].properties],
                            dicts'[ents[last'.ent].properties])]_vars

\* No two entities hold one properties dictionary, and the entity a
\* from_tokens call returned does not hold the mapping the caller passed.
OwnProperties ==
    /\ \A e1, e2 \in 1..Len(ents) : e1 # e2 => ents[e1].properties # ents[e2].properties
    /\ (last.op = "from_tokens" /\ last.ok) => ents[last.ent].properties # last.propsRef

\* C18: decoding gives a fresh entity and shares nothing that changes.  A
\* from_tokens call that succeeds returns an entity that was not there
\* before, with a properties dictionary of its own; and a set_property or
\* set_molecule call on one entity changes no other entity, no dictionary
\* but its own properties (so not the mapping a caller passed), not the
\* token list it stores, which is the caller's, and not VOCAB or
\* SG_OPS_TEXT.
C18_FreshEntities ==
    /\ []OwnProperties
    /\ [][/\ (CallOf({"from_tokens"}) /\ last'.ok)
             => (last'.ent = Len(ents) + 1 /\ Len(ents') = Len(ents) + 1)
          /\ CallOf({"set_property", "set_molecule"})
             => /\ \A e \in 1..Len(ents) : e # last'.ent => ents'[e] = ents[e]
                /\ \A d \in 1..Len(dicts) :
                      d # ents[last'.ent].properties => dicts'[d] = dicts[d]
                /\ Len(dicts') = Len(dicts)
                /\ ents'[last'.ent].tokens = ents[last'.ent].tokens
                /\ tables' = tables]_vars

\* Two entities were decoded from one list with one mapping, a property of
\* the first was set, and the second and the mapping hold the old value.
C18_Witness ==
    /\ Len(ents) = 3 /\ Len(dicts) = 6
    /\ ents[2].tokens = ents[3].tokens
    /\ last.op = "set_property" /\ last.ent = 2
    /\ dicts[ents[2].properties] = Dict1("energy", 2500)
    /\ dicts[ents[3].properties] = Dict1("energy", 7000)
    /\ dicts[2] = Dict1("energy", 7000)

\* C19: in token-mode ingestion, an item whose density computation raised
\* (its CIF rendering failed for an unsupported space group, say) does not
\* end the upload and leaves a warning that names it in the warnings list.
C19_DensityFailureWarned ==
    result.op = "upload_dataset"
    => \A n \in result.failed :
          \E i \in 1..Len(result.warns) : result.warns[i].name = n

\* A token without its trailing '_sg', if it has one.
WithoutSuffix(tok) ==
    IF tok # <<>> /\ tok[Len(tok)] = "_sg" THEN SubSeq(tok, 1, Len(tok) - 1) ELSE tok

\* The first token of the SG body of the list last decoded.
SgTok == extract("SG", JoinSpace(last.tokens))[1]

\* C20: the space group is the integer left when the literal suffix '_sg'
\* alone is taken off the SG body's token.  For a list whose SG body is not
\* empty, decoding fails when the token without its trailing '_sg' is not
\* an integer literal, and a decoding that succeeds gives that integer.
C20_SuffixOnly ==
    (Decoded /\ extract("SG", JoinSpace(last.tokens)) # <<>>)
    => /\ ~IntOk(WithoutSuffix(SgTok)) => ~last.ok
       /\ (last.ok /\ IntOk(WithoutSuffix(SgTok)))
          => DecodedEnt.space_group = IntVal(WithoutSuffix(SgTok))

(***************************************************************************)
(* Orders: one set of segments is decoded in several orders.               *)
(***************************************************************************)
\* The most reorderings of one set of segments.
MaxSwaps == 1

\* The token list of a sequence of segments.
RECURSIVE Flatten(_)
Flatten(segs) ==
    IF segs = <<>> THEN <<>>
    ELSE Segment(segs[1].tag, segs[1].body) \o Flatten(Tail(segs))

Reverse(seq) == [i \in 1..Len(seq) |-> seq[Len(seq) + 1 - i]]

SwapAt(seq, i, j) == [seq EXCEPT ![i] = seq[j], ![j] = seq[i]]

\* The segment sets decoded: those of an encoding; the same with both
\* property segments; the same without the X segment; and one in which
\* the tags A, SG and LE occur twice with different bodies.
OrderSegments ==
    LET base == SegmentsOf(CrystalTokens(BaseFields))
        le == [tag |-> "LE", body |-> <<Tok("1"), Tok("."), Tok("5")>>]
        hull == [tag |-> "LE_HULL", body |-> <<Tok("-"), Tok("0"), Tok("."), Tok("2")>>]
        a2 == [tag |-> "A", body |-> <<Tok("7"), Tok("."), Tok("2"), Tok("5")>>]
        sg2 == [tag |-> "SG", body |-> <<SgToken(2)>>]
        le2 == [tag |-> "LE", body |-> <<Tok("2"), Tok("."), Tok("5")>>]
    IN  { base,
          base \o <<le, hull>>,
          SelectSeq(base, LAMBDA g : g.tag # "X"),
          base \o <<a2, le, sg2, le2>> }

\* The second half of a sequence put before the first.
Halved(seq) ==
    SubSeq(seq, (Len(seq) \div 2) + 1, Len(seq)) \o SubSeq(seq, 1, Len(seq) \div 2)

\* The orders a run starts from: the encoder's, its reverse, and the
\* reverse with its halves exchanged.
OrderLists ==
    UNION { {Flatten(segs), Flatten(Reverse(segs)), Flatten(Halved(Reverse(segs)))} :
            segs \in OrderSegments }

OrderInit ==
    /\ \E tokens \in OrderLists : result = [op |-> "order", ok |-> TRUE, err |-> NoErr, tokens |-> tokens]
    /\ ents = <<>> /\ dicts = <<>> /\ made = <<>>
    /\ returned = [ent |-> 0, tokens |-> <<>>]
    /\ last = NoCall /\ files = NoFiles /\ plan = NoPlan /\ calls = 0
    /\ tables = ModuleTables

\* from_tokens of the list the run starts from.
OrderDecode ==
    /\ last.op = ""
    /\ FromTokens(result.tokens, NoProps)

\* from_tokens of the list last decoded with two of its segments
\* exchanged: one with the first segment, or two neighbours.
OrderDecodeSwapped ==
    /\ last.op = "from_tokens" /\ calls <= MaxSwaps
    /\ \E segs \in {SegmentsOf(last.tokens)} :
          \E i \in 1..Len(segs) : \E j \in (i + 1)..Len(segs) :
             /\ i = 1 \/ j = i + 1
             /\ FromTokens(Flatten(SwapAt(segs, i, j)), NoProps)

OrderNext == OrderDecode \/ OrderDecodeSwapped

SpecOrder == OrderInit /\ [][OrderNext]_vars

(***************************************************************************)
(* Supported structures: a structure the tables cover is built, encoded,   *)
(* its list is decoded as the caller left it, and the ids of the entities  *)
(* are taken.                                                              *)
(***************************************************************************)
\* The fields the tables cover: the space group is a key of SG_OPS_TEXT and
\* every identity token a key of VOCAB (every real of the model is finite).
Supported(f) ==
    /\ f.space_group \in SgOpsKeys
    /\ \A i \in 1..Len(f.selfies_tokens) :
          \E k \in 1..Len(VocabItems) : VocabItems[k][1] = f.selfies_tokens[i]

\* The structures drawn that the tables cover, and the base structure with
\* every space group of SG_OPS_TEXT.
SupportedStructures ==
    {s \in Structures : s.props = NoProps /\ Supported(s.fields)}
    \cup {[fields |-> [BaseFields EXCEPT !.space_group = g], props |-> NoProps] :
            g \in SgOpsKeys}

\* The inputs of a run: every such structure with its list decoded as
\* encoded, and the base structure with property segments appended.
SupportedRuns ==
    {[s |-> s, plan |-> NoPlan] : s \in SupportedStructures}
    \cup {[s |-> [fields |-> BaseFields, props |-> NoProps],
            plan |-> [edit |-> KeepEdit, extra |-> x, props |-> NoProps]] :
            x \in ExtraSegments}

VocabInit == \E r \in SupportedRuns : InitWith(r.s, r.plan)

VocabEncode == calls < MaxSteps /\ \E e \in 1..Len(ents) : GetCrystalTokens(e)

VocabDecode ==
    /\ calls < MaxSteps /\ returned.ent # 0 /\ Len(ents) = 1
    /\ FromTokens(PlannedTokens, plan.props)

VocabGetTokenIds == calls < MaxSteps /\ \E e \in 1..Len(ents) : GetTokenIds(e)

VocabNext == VocabEncode \/ VocabDecode \/ VocabGetTokenIds

SpecVocab == VocabInit /\ [][VocabNext]_vars

(***************************************************************************)
(* Rotations.  A length or an angle is an integer count of 10^-9, so that  *)
(* the tolerance 1e-8 of the two guards is ten units.  A matrix is held as *)
(* its offset from the identity: entry [i][j] counts R[i,j] - eye[i,j].    *)
(***************************************************************************)
\* The largest component, in 10^-9, of the vectors drawn.
MaxNano == 7

\* 1.0 in units of 10^-9.
Unit == Pow10(5) * Pow10(4)

\* The tolerance 1e-8 of both guards.
Tolerance == Pow10(1)

\* np.eye(3) and np.zeros(3).
Eye == <<<<0, 0, 0>>, <<0, 0, 0>>, <<0, 0, 0>>>>

Zeros == <<0, 0, 0>>

\* A quotient by zero in numpy: nan (with a warning, no exception), a
\* value of its own outside the range of the entries.
NaN == -2 * Unit - 1

\* np.linalg.norm(r) < bound, for bound >= 0: the squares are compared.
NormBelow(r, bound) == r[1] * r[1] + r[2] * r[2] + r[3] * r[3] < bound * bound

\* A mutant of rodrigues_to_rotmat: the guard is gone, every vector is
\* divided by its norm.
RodriguesNoGuard(r) ==
    IF r = Zeros
    THEN [val |-> <<<<NaN, NaN, NaN>>, <<NaN, NaN, NaN>>, <<NaN, NaN, NaN>>>>, divided |-> TRUE]
    ELSE [val |-> <<<<0, -2 * r[3], 2 * r[2]>>,
                    <<2 * r[3], 0, -2 * r[1]>>,
                    <<-2 * r[2], 2 * r[1], 0>>>>,
          divided |-> TRUE]

\* rodrigues_to_rotmat(r).  Under the tolerance the identity is returned
\* before r is divided by its norm.  Past it, with u = r/norm and
\* theta = 2 arctan(norm), the entries are those of
\* ((1 - n^2) eye + 2 r r^T + 2 [r]x) / (1 + n^2); for the vectors drawn
\* (norm under 10^-7) the terms in n^2 and r r^T lie under 10^-14 and the
\* entries round, at 10^-9, to eye + 2 [r]x.
rodrigues_to_rotmat(r) ==
    IF NormBelow(r, Tolerance)
    THEN [val |-> Eye, divided |-> FALSE]
    ELSE [val |-> <<<<0, -2 * r[3], 2 * r[2]>>,
                    <<2 * r[3], 0, -2 * r[1]>>,
                    <<-2 * r[2], 2 * r[1], 0>>>>,
          divided |-> TRUE]

\* np.arccos(t) of a clamped t, given as twice its distance under 1 in
\* 10^-9: 0.0 at t = 1; next to 1 the angle is sqrt(2 (1 - t)), which for
\* the smallest distance the model holds (0.5e-9) is 31623e-9; and the
\* angles of the cosines 0.6 and 0.
Arccos(twice) ==
    CASE twice = 0 -> 0
      [] twice = -8 * Pow10(5) * Pow10(3) -> 927295218
      [] twice = -2 * Unit -> 1570796327
      [] OTHER -> 31623 * (CHOOSE s \in 1..50 : s * s <= -twice /\ -twice < (s + 1) * (s + 1))

\* rotmat_to_rodrigues(R): t = (trace - 1)/2 is clamped to 1 from above
\* (no matrix drawn has a trace under -1) and theta = arccos(t).  Under the
\* tolerance the zero vector is returned before anything is divided by
\* sin(theta).  Past it the result, axis tan(theta/2) with
\* axis = skew / (2 sin(theta)), equals skew / (2 (1 + t)); the quotient
\* is taken at 10^-3 unless t is within 10^-3 of 1.
rotmat_to_rodrigues(R) ==
    LET twice == R[1][1] + R[2][2] + R[3][3]
        clamped == IF twice > 0 THEN 0 ELSE twice
        theta == Arccos(clamped)
        skew == <<R[3][2] - R[2][3], R[1][3] - R[3][1], R[2][1] - R[1][2]>>
        den == 4000 + clamped \div (Pow10(3) * Pow10(3))
    IN  IF Abs(theta) < Tolerance THEN [val |-> Zeros, divided |-> FALSE]
        ELSE [val |-> [i \in 1..3 |-> IF den = 4000 THEN skew[i] \div 4
                                      ELSE (skew[i] \div den) * 1000],
              divided |-> TRUE]

\* The vectors drawn: every vector of components up to MaxNano, on both
\* sides of the tolerance.
RotVectors == {<<x, y, z>> : x \in -MaxNano..MaxNano, y \in -MaxNano..MaxNano, z \in -MaxNano..MaxNano}

\* Matrices a caller may pass: the identity with a diagonal entry off by
\* one unit either way, and the rotations about z of cosine 0.6 and 0.
RotMatrices ==
    { <<<<1, 0, 0>>, <<0, 0, 0>>, <<0, 0, 0>>>>,
      <<<<0, 0, 0>>, <<0, -1, 0>>, <<0, 0, 0>>>>,
      <<<<1, 3, 0>>, <<-3, 1, 0>>, <<0, 0, 1>>>>,
      <<<<-4 * Pow10(5) * Pow10(3), -8 * Pow10(5) * Pow10(3), 0>>,
        <<8 * Pow10(5) * Pow10(3), -4 * Pow10(5) * Pow10(3), 0>>, <<0, 0, 0>>>>,
      <<<<-Unit, -Unit, 0>>, <<Unit, -Unit, 0>>, <<0, 0, 0>>>> }

RotInit ==
    /\ \E r \in RotVectors :
          result = [op |-> "", ok |-> TRUE, err |-> NoErr, arg |-> r,
                    ret |-> [val |-> Zeros, divided |-> FALSE]]
    /\ ents = <<>> /\ dicts = <<>> /\ made = <<>>
    /\ returned = [ent |-> 0, tokens |-> <<>>]
    /\ last = NoCall /\ files = NoFiles /\ plan = NoPlan /\ calls = 0
    /\ tables = ModuleTables

\* rodrigues_to_rotmat of the vector at hand.
RodriguesToRotmat ==
    /\ result.op = ""
    /\ result' = [result EXCEPT !.op = "rodrigues_to_rotmat",
                                 !.ret = rodrigues_to_rotmat(result.arg)]
    /\ UNCHANGED <<ents, dicts, made, returned, last, files, plan, calls, tables>>

\* rotmat_to_rodrigues of the identity just returned, or of a matrix of
\* the caller.  (A matrix returned past the tolerance differs from the
\* identity in its diagonal by less than the model resolves, so it is not
\* passed on.)
RotmatToRodrigues ==
    /\ result.op = "rodrigues_to_rotmat"
    /\ \E R \in (IF result.ret.val = Eye THEN {Eye} ELSE {}) \cup RotMatrices :
          result' = [result EXCEPT !.op = "rotmat_to_rodrigues", !.arg = R,
                                   !.ret = rotmat_to_rodrigues(R)]
    /\ UNCHANGED <<ents, dicts, made, returned, last, files, plan, calls, tables>>

RotNext == RodriguesToRotmat \/ RotmatToRodrigues

SpecRot == RotInit /\ [][RotNext]_vars

(***************************************************************************)
(* Association: the names of the energy table are matched to CIF entries.  *)
(* An id is a sequence of characters.                                      *)
(***************************************************************************)
\* The most CIF entries and the most names of one call.
MaxCifs == 2

MaxNames == 2

\* str.lower() on the letters the ids are written with.
LowerChar(ch) ==
    CASE ch = "A" -> "a" [] ch = "B" -> "b" [] ch = "D" -> "d" [] ch = "T" -> "t"
      [] OTHER -> ch

Lower(chars) == [i \in 1..Len(chars) |-> LowerChar(chars[i])]

\* _ID_PREFIX.sub("", s): 'data' in any case and the run of '_' and '-'
\* after it, at the start of s and once.
WithoutIdPrefix(chars) ==
    LET marks == {"_", "-"}
        run == {n \in 5..Len(chars) : \A i \in 5..n : chars[i] \in marks}
    IN  IF Len(chars) >= 5 /\ Lower(SubSeq(chars, 1, 4)) = <<"d", "a", "t", "a">> /\ run # {}
        THEN SubSeq(chars, (CHOOSE n \in run : \A m \in run : m <= n) + 1, Len(chars))
        ELSE chars

\* _norm_id(s)
norm_id(chars) == IF chars = <<>> THEN <<>> ELSE Lower(WithoutIdPrefix(Strip(chars)))

\* cn in h: cn stands somewhere in h.
Contains(h, cn) == \E i \in 0..(Len(h) - Len(cn)) : SubSeq(h, i + 1, i + Len(cn)) = cn

\* The score one CIF entry gets for a normalized name: 3 for equality with
\* the header or a non-empty file stem, 2 for a header that contains the
\* name, -1 otherwise.
Score(cn, h, f) ==
    IF cn # <<>> /\ (h = cn \/ (f # <<>> /\ f = cn)) THEN 3
    ELSE IF cn # <<>> /\ Contains(h, cn) THEN 2
    ELSE -1

\* The scan of the entries for one name: the index kept in best, 0 if no
\* unused entry scores.  The first entry of score 3 ends the scan; failing
\* that, the first entry of the highest score stays.
BestIndex(cn, normalized, used) ==
    LET free == {i \in 1..Len(normalized) : i \notin used}
        sc(i) == Score(cn, normalized[i].h, normalized[i].f)
        scoring == {i \in free : sc(i) > 0}
        top == {i \in scoring : \A j \in scoring : sc(j) <= sc(i)}
    IN  IF scoring = {} THEN 0 ELSE CHOOSE i \in top : \A j \in top : i <= j

\* The ids written in headers, file stems and names.
IdAB == <<"a", "b">>

Headers == { <<"d", "a", "t", "a", "_", "A", "B">>, <<"a", "b", "c">>, <<"d", "a", "t", "a", "_", "b">> }

FileStems == { None, Some(<<" ", "a", "b">>), Some(<<"c">>) }

CsvNames == { <<"a">>, IdAB, <<"D", "a", "t", "a", "-", "a", "b">>, <<"b", "c">> }

\* The entries _read_zip_cifs or _split_multi_cif hand over: a header and
\* a file stem or None.
CifEntries == [header : Headers, file_stem : FileStems]

RECURSIVE SeqsUpTo(_, _)
SeqsUpTo(S, n) ==
    IF n = 0 THEN {<<>>}
    ELSE SeqsUpTo(S, n - 1)
         \cup {Append(q, x) : q \in {y \in SeqsUpTo(S, n - 1) : Len(y) = n - 1}, x \in S}

\* The keys of en_map in the order of the table's rows: no key twice.
NameLists ==
    {q \in SeqsUpTo(CsvNames, MaxNames) : \A i, j \in 1..Len(q) : q[i] = q[j] => i = j}

\* _associate_cifs_to_csv(cif_entries, en_map) up to its loop over the
\* names: nothing used, no result, no warning, every entry normalized.
AssocInit ==
    /\ \E cifs \in SeqsUpTo(CifEntries, MaxCifs) : \E names \in NameLists :
          result = [op |-> "_associate_cifs_to_csv", ok |-> TRUE, err |-> NoErr,
                    cif_entries |-> cifs, names |-> names,
                    normalized |-> [i \in 1..Len(cifs) |->
                                      [h |-> norm_id(cifs[i].header),
                                       f |-> IF cifs[i].file_stem.some
                                             THEN norm_id(cifs[i].file_stem.val) ELSE <<>>]],
                    at |-> 1, used |-> {}, results |-> <<>>, warns |-> <<>>,
                    returned |-> FALSE]
    /\ ents = <<>> /\ dicts = <<>> /\ made = <<>>
    /\ returned = [ent |-> 0, tokens |-> <<>>]
    /\ last = NoCall /\ files = NoFiles /\ plan = NoPlan /\ calls = 0
    /\ tables = ModuleTables

\* One turn of the loop over en_map.keys(): the name gets the entry kept
\* by the scan, or a warning.
MatchName ==
    /\ result.op = "_associate_cifs_to_csv" /\ ~result.returned
    /\ result.at <= Len(result.names)
    /\ LET csv_name == result.names[result.at]
           best == BestIndex(norm_id(csv_name), result.normalized, result.used)
       IN  result' = IF best = 0
                     THEN [result EXCEPT !.at = @ + 1,
                                         !.warns = Append(@, [name |-> csv_name])]
                     ELSE [result EXCEPT !.at = @ + 1,
                                         !.used = @ \cup {best},
                                         !.results = Append(@, [name |-> csv_name, entry |-> best])]
    /\ UNCHANGED <<ents, dicts, made, returned, last, files, plan, calls, tables>>

\* return results, warns
ReturnMatches ==
    /\ result.op = "_associate_cifs_to_csv" /\ ~result.returned
    /\ result.at > Len(result.names)
    /\ result' = [result EXCEPT !.returned = TRUE]
    /\ UNCHANGED <<ents, dicts, made, returned, last, files, plan, calls, tables>>

AssocNext == MatchName \/ ReturnMatches

SpecAssoc == AssocInit /\ [][AssocNext]_vars

\* The characters a fixed-point decimal is written with.
DecimalChars == {DigitChars[i] : i \in 1..10} \cup {"-", "."}

\* The places of the tokens of toks that are the one-character token ch.
PlacesOf(toks, ch) == {i \in 1..Len(toks) : toks[i] = <<ch>>}

\* C21: split_numeric(v, p) returns single-character tokens only, each a
\* digit, '-' or '.'.  With p > 0 there is one '.' token, on its own, with
\* exactly p digit tokens after it; with p = 0 there is none.  A '-' token
\* stands on its own at the front exactly when the value formatted carries
\* a minus sign, and nowhere else.  No token combines several characters.
C21_StandaloneTokens ==
    result.op = "split_numeric"
    => LET toks == result.ret
           dots == PlacesOf(toks, ".")
           minus == PlacesOf(toks, "-")
       IN  /\ \A i \in 1..Len(toks) : Len(toks[i]) = 1 /\ toks[i][1] \in DecimalChars
           /\ Cardinality(dots) = (IF result.p > 0 THEN 1 ELSE 0)
           /\ \A d \in dots : /\ Len(toks) - d = result.p
                               /\ d > 1 /\ IsDigit(toks[d - 1][1])
                               /\ \A i \in (d + 1)..Len(toks) : IsDigit(toks[i][1])
           /\ minus = (IF result.v < 0 THEN {1} ELSE {})
           /\ Len(toks) > Cardinality(dots) + Cardinality(minus)

\* A negative value was digitized with two places: '-', '0', '.', '1', '2'.
C21_Witness ==
    /\ result.op = "split_numeric" /\ ~result.first.some
    /\ result.v = -125 /\ result.p = 2
    /\ result.ret = <<Tok("-"), Tok("0"), Tok("."), Tok("1"), Tok("2")>>

\* Every tag of segs occurs once.
TagsOnce(segs) == \A i, j \in 1..Len(segs) : segs[i].tag = segs[j].tag => i = j

\* Every segment of segs carries a known tag and holds no tag token.
Unnested(segs) ==
    \A i \in 1..Len(segs) :
       /\ segs[i].tag \in AllTags
       /\ \A k \in 1..Len(segs[i].body) :
             Len(segs[i].body[k]) = 1 => segs[i].body[k][1] \notin TagLexemes

\* Two segment sequences without repeated tags hold the same segments.
SameSegments(s1, s2) ==
    /\ Len(s1) = Len(s2)
    /\ {s1[i] : i \in 1..Len(s1)} = {s2[i] : i \in 1..Len(s2)}

\* The body of the first segment of segs tagged tag, empty if there is none.
FirstBody(segs, tag) ==
    LET at == {i \in 1..Len(segs) : segs[i].tag = tag}
    IN  IF at = {} THEN <<>> ELSE segs[CHOOSE i \in at : \A j \in at : i <= j].body

\* What an entity holds apart from the list it was decoded from.
FieldsOf(e) == [e EXCEPT !.tokens = <<>>, !.properties = 0]

\* The entity last decoded holds what the first segment of each tag says.
FirstOccurrenceUsed ==
    \E segs \in {SegmentsOf(last.tokens)} :
       (Unnested(segs) /\ last.ok)
       => /\ DecodedEnt.selfies_tokens = FirstBody(segs, "SELF")
          /\ DecodedEnt.space_group = IntVal(RemoveSg(FirstBody(segs, "SG")[1]))
          /\ \A i \in 1..Len(NumericTags) :
                NumericField(DecodedEnt, i) = FloatVal(Concat(FirstBody(segs, NumericTags[i])))
          /\ \A k \in {"LE", "LE_HULL"} :
                IF FirstBody(segs, k) # <<>> /\ FloatOk(Concat(FirstBody(segs, k)))
                THEN /\ k \in DOMAIN PropsOf(DecodedEnt)
                     /\ PropsOf(DecodedEnt)[k] = FloatVal(Concat(FirstBody(segs, k)))
                ELSE k \notin DOMAIN PropsOf(DecodedEnt)

\* C22: tag discovery does not depend on the order of the segments.  When
\* a list of well-formed, unnested segments in which every tag occurs once
\* is decoded after another order of the same segments, both decodings
\* fail or both succeed, and then with the same field values and the same
\* properties.  When a tag occurs more than once, the entity decoded holds
\* the value of its first occurrence in the list.
C22_OrderIndependent ==
    /\ [](last.op = "from_tokens" => FirstOccurrenceUsed)
    /\ [][(/\ last'.op = "from_tokens" /\ calls' = calls + 1
           /\ last.op = "from_tokens"
           /\ \E s1 \in {SegmentsOf(last.tokens)} : \E s2 \in {SegmentsOf(last'.tokens)} :
                 Unnested(s1) /\ TagsOnce(s1) /\ SameSegments(s1, s2))
          => /\ last'.ok = last.ok
             /\ last.ok => /\ FieldsOf(ents'[last'.ent]) = FieldsOf(ents'[last.ent])
                           /\ dicts'[ents'[last'.ent].properties]
                                = dicts'[ents'[last.ent].properties]]_vars

\* The segments of an encoding with both property segments were decoded
\* in the encoder's order and then with the SELF segment moved to the end
\* and the LE_HULL segment to the front; both entities hold both properties.
C22_Witness ==
    /\ result.op = "order" /\ last.op = "from_tokens" /\ last.ok
    /\ Len(ents) = 2
    /\ SegmentsOf(last.tokens)[1].tag = "LE_HULL"
    /\ SegmentsOf(last.tokens)[16].tag = "SELF"
    /\ FieldsOf(ents[1]) = FieldsOf(ents[2])
    /\ PropsOf(ents[2]) = Dict2("LE", 1500, "LE_HULL", -200)

\* Every token of the list is a key of the vocabulary of the module.
AllInVocab(tokens) ==
    \E keys \in {DOMAIN tables.VOCAB} : \A i \in 1..Len(tokens) : tokens[i] \in keys

\* The compound token of every space group of SG_OPS_TEXT is in VOCAB.
SgTokensInVocab ==
    \E keys \in {DOMAIN tables.VOCAB} :
       \A g \in DOMAIN tables.SG_OPS_TEXT : SgToken(g) \in keys

\* get_crystal_tokens was just called on an entity the tables cover.
EncodedSupported ==
    /\ last.op = "get_crystal_tokens" /\ returned.ent = last.ent
    /\ Supported(ents[last.ent])

\* get_token_ids was just called on an entity the tables cover.
IdsOfSupported ==
    /\ last.op = "get_token_ids" /\ result.op = "get_token_ids"
    /\ Supported(ents[last.ent])

\* C23, as claimed: for every structure whose space group is a key of
\* SG_OPS_TEXT and whose identity tokens are keys of VOCAB, every token of
\* get_crystal_tokens() is a key of VOCAB and get_token_ids() does not
\* fail; '<g>_sg' is a key of VOCAB for every key g of SG_OPS_TEXT.
C23_NeverFails ==
    /\ SgTokensInVocab
    /\ EncodedSupported => AllInVocab(returned.tokens)
    /\ IdsOfSupported => result.ok

\* C23, amended: as above, with get_token_ids() not failing on an entity
\* whose stored list is the encoding of its fields (get_token_ids maps the
\* stored list, which for a decoded entity is the caller's).
C23_EncoderTokensInVocab ==
    /\ SgTokensInVocab
    /\ EncodedSupported => AllInVocab(returned.tokens)
    /\ (IdsOfSupported /\ ents[last.ent].tokens = CrystalTokens(ents[last.ent]))
       => /\ result.ok
          /\ Len(result.ret.val) = Len(ents[last.ent].tokens)

\* The ids of a structure of space group 169 with a negative component
\* were taken: its list holds '169_sg' and a sign token.
C23_Witness ==
    /\ IdsOfSupported /\ result.ok
    /\ made[last.ent].origin = "fields"
    /\ \E i \in 1..Len(result.tokens) : result.tokens[i] = Tok("-")
    /\ \E e \in 1..Len(ents) : ents[e].space_group = 169 /\ calls = 3

\* The angle rotmat_to_rodrigues reads off a matrix: arccos of the clamped
\* (trace - 1)/2.
RotationAngle(R) ==
    LET twice == R[1][1] + R[2][2] + R[3][3]
    IN  Arccos(IF twice > 0 THEN 0 ELSE twice)

\* C24: the guards of the two rotation conversions.  For the zero vector,
\* and for every vector of norm under 1e-8, rodrigues_to_rotmat returns
\* exactly the identity and has not divided by the norm.  For the identity
\* matrix, and for every matrix whose angle is within 1e-8 of zero,
\* rotmat_to_rodrigues returns exactly the zero vector and has not divided
\* by sin(theta).
C24_DegenerateGuards ==
    /\ (result.op = "rodrigues_to_rotmat"
        /\ (result.arg = Zeros \/ NormBelow(result.arg, Tolerance)))
       => (result.ret.val = Eye /\ ~result.ret.divided)
    /\ (result.op = "rotmat_to_rodrigues"
        /\ (result.arg = Eye \/ Abs(RotationAngle(result.arg)) < Tolerance))
       => (result.ret.val = Zeros /\ ~result.ret.divided)

\* The identity returned for a vector under the tolerance was converted
\* back: the zero vector, with no division.
C24_Witness ==
    /\ result.op = "rotmat_to_rodrigues" /\ result.arg = Eye
    /\ result.ret = [val |-> Zeros, divided |-> FALSE]

\* The name, normalized, equals the normalized header or the normalized
\* file stem of the entry.
ExactlyMatches(name, entry) ==
    \/ norm_id(name) = norm_id(entry.header)
    \/ entry.file_stem.some /\ norm_id(name) = norm_id(entry.file_stem.val)

\* The places of the list at which the name stands.
PlacesOfName(list, name) == {i \in 1..Len(list) : list[i].name = name}

\* No entry is paired twice, and every name has one pair or one warning.
OneToOnePartial ==
    /\ \A i, j \in 1..Len(result.results) :
          result.results[i].entry = result.results[j].entry => i = j
    /\ \A k \in 1..Len(result.names) :
          Cardinality(PlacesOfName(result.results, result.names[k]))
          + Cardinality(PlacesOfName(result.warns, result.names[k])) = 1

\* C25: what _associate_cifs_to_csv returns is a one-to-one partial
\* matching in which exact matches come first.  No CIF entry is paired
\* with two names; every name has exactly one of a pair and a warning; and
\* a name that, normalized, equals the normalized header or file stem of
\* some CIF entry is paired with an entry it matches exactly, whatever the
\* order of the names and of the entries.
C25_ExactMatchesFirst ==
    (result.op = "_associate_cifs_to_csv" /\ result.returned)
    => /\ OneToOnePartial
       /\ \A k \in 1..Len(result.names) :
             (\E i \in 1..Len(result.cif_entries) :
                 ExactlyMatches(result.names[k], result.cif_entries[i]))
             => \E p \in 1..Len(result.results) :
                   /\ result.results[p].name = result.names[k]
                   /\ ExactlyMatches(result.names[k],
                                     result.cif_entries[result.results[p].entry])

====
